---- MODULE Spec2Model ----
(***************************************************************************)
(* FlameLink: the claim gate (POST /api/claim/init, POST /api/claim), the  *)
(* key splitter and codec of lib/crypto.ts, the blob store adapter of      *)
(* lib/walrus.ts and the create / reveal flows of the pages.               *)
(*                                                                         *)
(* Strings are sequences of character codes.  JSON numbers are integers in *)
(* units of 1/Denom, so that a non-integer such as 1.5 can be sent.        *)
(* A route handler runs without interruption between two awaits; each      *)
(* action below is one such run.                                           *)
(***************************************************************************)
EXTENDS Integers, Sequences, FiniteSets, TLC

VARIABLES
    now,          \* Date.now(), in milliseconds
    storeCreated, \* globalThis.__fl_claims exists (the init route module was loaded)
    fl_claims,    \* store.__fl_claims: claimId -> reference to an entry object
    heap,         \* the entry objects, by reference
    initReq,      \* the invocations of the init route's POST
    claimReq,     \* the invocations of the claim route's POST
    dead,         \* history: the claimIds whose record was deleted from the map
    blobs,        \* the payloads stored on Walrus, in the order they were first stored
    create,       \* the create page: its React state and the locals of handleSubmit
    reveal,       \* the secret pages: their React state and the locals of handleReveal
    pure          \* the inputs and results of a pure function under test

gateVars == <<now, storeCreated, fl_claims, heap, initReq, claimReq, dead>>
clientVars == <<blobs, create, reveal, pure>>
vars == <<now, storeCreated, fl_claims, heap, initReq, claimReq, dead,
          blobs, create, reveal, pure>>

----------------------------------------------------------------------------
(* Bounds *)

MaxInits == 1
MaxClaims == 2
MaxTicks == 2
Denom == 2
IdLen == 2
TokenLen == 3

InitReqs == DOMAIN initReq
ClaimReqs == DOMAIN claimReq

----------------------------------------------------------------------------
(* JSON values of a request body *)

Undefined == [t |-> "undefined", v |-> 0]
Num(x) == [t |-> "number", v |-> x]
Str(s) == [t |-> "string", v |-> s]
\* the integer k as a JSON number
N(k) == Num(k * Denom)
\* a body on which req.json() throws
Garbage == [parsable |-> FALSE]

\* !x
Falsy(x) ==
    \/ x.t = "undefined"
    \/ (x.t = "string" /\ x.v = <<>>)
    \/ (x.t = "number" /\ x.v = 0)

(* the error texts of the two routes *)

\* 'Not found'
TextNotFound ==
    <<78, 111, 116, 32, 102, 111, 117, 110, 100>>

\* 'All uses exhausted'
TextExhausted ==
    <<65, 108, 108, 32, 117, 115, 101, 115, 32, 101, 120, 104, 97, 117, 115,
      116, 101, 100>>

\* 'Expired'
TextExpired ==
    <<69, 120, 112, 105, 114, 101, 100>>

\* 'Unauthorized'
TextUnauthorized ==
    <<85, 110, 97, 117, 116, 104, 111, 114, 105, 122, 101, 100>>

\* 'Invalid request'
TextInvalidRequest ==
    <<73, 110, 118, 97, 108, 105, 100, 32, 114, 101, 113, 117, 101, 115, 116>>

\* 'Not initialized'
TextNotInitialized ==
    <<78, 111, 116, 32, 105, 110, 105, 116, 105, 97, 108, 105, 122, 101, 100>>

\* 'Claim failed'
TextClaimFailed ==
    <<67, 108, 97, 105, 109, 32, 102, 97, 105, 108, 101, 100>>

\* 'Init failed'
TextInitFailed ==
    <<73, 110, 105, 116, 32, 102, 97, 105, 108, 101, 100>>

\* 'share2B64Url required'
TextShareRequired ==
    <<115, 104, 97, 114, 101, 50, 66, 54, 52, 85, 114, 108, 32, 114, 101,
      113, 117, 105, 114, 101, 100>>

\* NextResponse.json(body, { status })
Json(status, body) == [status |-> status, body |-> body]
NoResponse == [status |-> 0, body |-> [error |-> <<>>]]

----------------------------------------------------------------------------
(* randomId and sha256Base64Url *)

alphabet ==
    <<97, 98, 99, 100, 101, 102, 103, 104, 105, 106, 107, 108, 109, 110,
      111, 112, 113, 114, 115, 116, 117, 118, 119, 120, 121, 122,
      65, 66, 67, 68, 69, 70, 71, 72, 73, 74, 75, 76, 77, 78, 79, 80, 81,
      82, 83, 84, 85, 86, 87, 88, 89, 90,
      48, 49, 50, 51, 52, 53, 54, 55, 56, 57>>

\* the outcomes of Math.floor(Math.random() * alphabet.length) that are
\* enumerated: the first and the last letter
RandomDraws == {1, Len(alphabet)}

\* the strings randomId(len) may return (one draw repeated len times)
randomId(len) == { [i \in 1..len |-> alphabet[k]] : k \in RandomDraws }

ClaimIdPool == randomId(IdLen)
TokenPool == randomId(TokenLen)

----------------------------------------------------------------------------
(* Base64 (btoa / atob) and the URL-safe helpers of lib/crypto.ts *)

\* the character of a 6-bit value in the base64 alphabet
B64Char(i) ==
    IF i < 26 THEN 65 + i
    ELSE IF i < 52 THEN 97 + (i - 26)
    ELSE IF i < 62 THEN 48 + (i - 52)
    ELSE IF i = 62 THEN 43 ELSE 47

\* the 6-bit value of a base64 character, -1 for any other character
B64Index(c) ==
    IF c >= 65 /\ c <= 90 THEN c - 65
    ELSE IF c >= 97 /\ c <= 122 THEN c - 97 + 26
    ELSE IF c >= 48 /\ c <= 57 THEN c - 48 + 52
    ELSE IF c = 43 THEN 62
    ELSE IF c = 47 THEN 63 ELSE -1

RECURSIVE btoa(_)
btoa(b) ==
    IF Len(b) = 0 THEN <<>>
    ELSE IF Len(b) = 1 THEN
        <<B64Char(b[1] \div 4), B64Char((b[1] % 4) * 16), 61, 61>>
    ELSE IF Len(b) = 2 THEN
        <<B64Char(b[1] \div 4), B64Char((b[1] % 4) * 16 + b[2] \div 16),
          B64Char((b[2] % 16) * 4), 61>>
    ELSE
        <<B64Char(b[1] \div 4), B64Char((b[1] % 4) * 16 + b[2] \div 16),
          B64Char((b[2] % 16) * 4 + b[3] \div 64), B64Char(b[3] % 64)>>
        \o btoa(SubSeq(b, 4, Len(b)))

\* the value standing for a thrown exception where bytes are expected
Thrown == <<-1>>

RECURSIVE atobGroups(_)
atobGroups(s) ==
    IF Len(s) = 0 THEN <<>>
    ELSE IF Len(s) = 2 THEN
        <<B64Index(s[1]) * 4 + B64Index(s[2]) \div 16>>
    ELSE IF Len(s) = 3 THEN
        <<B64Index(s[1]) * 4 + B64Index(s[2]) \div 16,
          (B64Index(s[2]) % 16) * 16 + B64Index(s[3]) \div 4>>
    ELSE
        <<B64Index(s[1]) * 4 + B64Index(s[2]) \div 16,
          (B64Index(s[2]) % 16) * 16 + B64Index(s[3]) \div 4,
          (B64Index(s[3]) % 4) * 64 + B64Index(s[4])>>
        \o atobGroups(SubSeq(s, 5, Len(s)))

\* atob: padding is removed when the length is a multiple of 4; a length of
\* 1 modulo 4 or a character outside the alphabet throws
atob(s) ==
    LET n == Len(s)
        unpadded ==
            IF n > 0 /\ n % 4 = 0 /\ s[n] = 61
            THEN IF s[n - 1] = 61 THEN SubSeq(s, 1, n - 2) ELSE SubSeq(s, 1, n - 1)
            ELSE s
    IN  IF Len(unpadded) % 4 = 1
           \/ \E i \in 1..Len(unpadded) : B64Index(unpadded[i]) = -1
        THEN Thrown
        ELSE atobGroups(unpadded)

arrayBufferToBase64(bytes) == btoa(bytes)
base64ToArrayBuffer(base64) == atob(base64)

RECURSIVE stripPad(_)
stripPad(s) ==
    IF Len(s) > 0 /\ s[Len(s)] = 61 THEN stripPad(SubSeq(s, 1, Len(s) - 1)) ELSE s

toBase64Url(b64) ==
    LET r == [i \in 1..Len(b64) |->
                IF b64[i] = 43 THEN 45 ELSE IF b64[i] = 47 THEN 95 ELSE b64[i]]
    IN  stripPad(r)

fromBase64Url(b64url) ==
    LET pad == IF Len(b64url) % 4 = 2 THEN <<61, 61>>
               ELSE IF Len(b64url) % 4 = 3 THEN <<61>> ELSE <<>>
        r == [i \in 1..Len(b64url) |->
                IF b64url[i] = 45 THEN 43 ELSE IF b64url[i] = 95 THEN 47 ELSE b64url[i]]
    IN  r \o pad

arrayBufferToBase64Url(buffer) == toBase64Url(arrayBufferToBase64(buffer))
base64UrlToArrayBuffer(b64url) == base64ToArrayBuffer(fromBase64Url(b64url))

\* crypto.subtle.digest('SHA-256', data): a collision-free function of the
\* input bytes (its one-wayness is not modelled)
digest(data) == [i \in 1..Len(data) |-> (data[i] * 3 + 7) % 256]

sha256Base64UrlLeak(input) == input
sha256Base64Url(input) == toBase64Url(btoa(digest(input)))

----------------------------------------------------------------------------
(* Bytes, text and AES-GCM *)

KeyLen == 2
IvLen == 3

\* a ^ b on values below 2^bits
RECURSIVE BitXor(_, _, _)
BitXor(a, b, bits) ==
    IF bits = 0 THEN 0
    ELSE (((a % 2) + (b % 2)) % 2) + 2 * BitXor(a \div 2, b \div 2, bits - 1)

\* TextEncoder.encode: UTF-8 of code points below 2048
RECURSIVE TextEncode(_)
TextEncode(str) ==
    IF Len(str) = 0 THEN <<>>
    ELSE (IF str[1] < 128 THEN <<str[1]>>
          ELSE <<192 + (str[1] \div 64), 128 + (str[1] % 64)>>)
         \o TextEncode(Tail(str))

\* TextDecoder.decode: an ill-formed sequence decodes to U+FFFD
RECURSIVE TextDecode(_)
TextDecode(bytes) ==
    IF Len(bytes) = 0 THEN <<>>
    ELSE IF bytes[1] < 128 THEN <<bytes[1]>> \o TextDecode(Tail(bytes))
    ELSE IF bytes[1] >= 194 /\ bytes[1] < 224 /\ Len(bytes) >= 2
            /\ bytes[2] >= 128 /\ bytes[2] < 192
        THEN <<(bytes[1] - 192) * 64 + (bytes[2] - 128)>>
             \o TextDecode(SubSeq(bytes, 3, Len(bytes)))
    ELSE <<65533>> \o TextDecode(Tail(bytes))

\* crypto.subtle.encrypt({ name: "AES-GCM", iv }, key, data): the ciphertext
\* with its tag is one opaque cell that only the same key and iv open
AesGcmEncrypt(key, iv, data) == <<[key |-> key, iv |-> iv, data |-> data]>>

\* crypto.subtle.importKey + decrypt: the plaintext bytes, or Thrown when
\* the key has the wrong length or the tag does not verify (the cell is not
\* one that encrypt produced, or it was made with another key or iv)
AesGcmDecryptUnchecked(ciphertext, keyData, iv) ==
    IF Len(ciphertext) # 1 THEN Thrown ELSE ciphertext[1].data
AesGcmDecrypt(ciphertext, keyData, iv) ==
    IF Len(keyData) # KeyLen \/ Len(ciphertext) # 1 THEN Thrown
    ELSE IF /\ DOMAIN ciphertext[1] = {"key", "iv", "data"}
            /\ ciphertext[1].key = keyData /\ ciphertext[1].iv = iv
        THEN ciphertext[1].data
        ELSE Thrown

\* decryptSecret: the decoded text, or Thrown
decryptSecret(ciphertext, keyData, iv) ==
    LET decryptedData == AesGcmDecrypt(ciphertext, keyData, iv)
    IN  IF decryptedData = Thrown THEN Thrown ELSE TextDecode(decryptedData)

----------------------------------------------------------------------------
(* Key splitting *)

\* splitKeyXor with the bytes share1 drawn by crypto.getRandomValues
splitKeyXorCopy(keyBytes, share1) ==
    [share1 |-> share1,
     share2 |-> [i \in 1..Len(keyBytes) |-> keyBytes[i]]]
splitKeyXor(keyBytes, share1) ==
    [share1 |-> share1,
     share2 |-> [i \in 1..Len(keyBytes) |-> BitXor(keyBytes[i], share1[i], 8)]]

\* xorShares: Thrown on mismatched lengths
xorSharesSum(share1, share2) ==
    IF Len(share1) # Len(share2) THEN Thrown
    ELSE [i \in 1..Len(share1) |-> (share1[i] + share2[i]) % 256]
xorShares(share1, share2) ==
    IF Len(share1) # Len(share2) THEN Thrown
    ELSE [i \in 1..Len(share1) |-> BitXor(share1[i], share2[i], 8)]

----------------------------------------------------------------------------
(* The shareable link *)

\* s.split(sep) for a one-character separator
RECURSIVE Split(_, _)
Split(str, sep) ==
    IF \A i \in 1..Len(str) : str[i] # sep THEN <<str>>
    ELSE LET k == CHOOSE i \in 1..Len(str) :
                    str[i] = sep /\ \A j \in 1..(i - 1) : str[j] # sep
         IN  <<SubSeq(str, 1, k - 1)>> \o Split(SubSeq(str, k + 1, Len(str)), sep)

\* window.location.origin, here a host name without any of / # .
origin == <<111>>
\* "/secret/"
secretPath == <<47, 115, 101, 99, 114, 101, 116, 47>>

generateSecretUrlKeySplitRaw(blobId, keyShare1, iv, claimId, token) ==
    LET k1 == arrayBufferToBase64Url(keyShare1)
        ivB64 == arrayBufferToBase64Url(iv)
        tok == token
    IN  origin \o secretPath \o blobId \o <<35>>
        \o k1 \o <<46>> \o ivB64 \o <<46>> \o claimId \o <<46>> \o tok
generateSecretUrlKeySplit(blobId, keyShare1, iv, claimId, token) ==
    LET k1 == arrayBufferToBase64Url(keyShare1)
        ivB64 == arrayBufferToBase64Url(iv)
        tok == toBase64Url(btoa(token))
    IN  origin \o secretPath \o blobId \o <<35>>
        \o k1 \o <<46>> \o ivB64 \o <<46>> \o claimId \o <<46>> \o tok

\* the legacy link: base64(key) . base64(iv)
generateSecretUrlLegacy(blobId, key, iv) ==
    origin \o secretPath \o blobId \o <<35>>
    \o arrayBufferToBase64(key) \o <<46>> \o arrayBufferToBase64(iv)

NoParse == [ok |-> FALSE]

\* parseSecretUrl: the parsed record, or NoParse for the null result
parseSecretUrl(url) ==
    LET beforeHash == Split(url, 35)[1]
        \* urlObj.hash: the "#" and what follows it, empty when nothing follows
        hash == IF Len(url) > Len(beforeHash) + 1
                THEN SubSeq(url, Len(beforeHash) + 1, Len(url)) ELSE <<>>
        \* urlObj.pathname
        pathname == IF Len(beforeHash) > Len(origin)
                    THEN SubSeq(beforeHash, Len(origin) + 1, Len(beforeHash))
                    ELSE <<47>>
        pathParts == Split(pathname, 47)
        blobId == pathParts[Len(pathParts)]
        params == Tail(hash)
        parts == Split(params, 46)
    IN  IF hash = <<>> \/ blobId = <<>> THEN NoParse
        ELSE IF Len(parts) = 2 THEN
            LET key == base64ToArrayBuffer(parts[1])
                iv == base64ToArrayBuffer(parts[2])
            IN  IF key = Thrown \/ iv = Thrown THEN NoParse
                ELSE [ok |-> TRUE, blobId |-> blobId, hasKey |-> TRUE, key |-> key, iv |-> iv,
                      keyShare1 |-> <<>>, claimId |-> <<>>, token |-> <<>>]
        ELSE IF Len(parts) = 4 THEN
            LET keyShare1 == base64UrlToArrayBuffer(parts[1])
                iv == base64UrlToArrayBuffer(parts[2])
                token == atob(fromBase64Url(parts[4]))
            IN  IF keyShare1 = Thrown \/ iv = Thrown \/ token = Thrown THEN NoParse
                ELSE [ok |-> TRUE, blobId |-> blobId, hasKey |-> FALSE, key |-> <<>>, iv |-> iv,
                      keyShare1 |-> keyShare1, claimId |-> parts[3], token |-> token]
        ELSE NoParse

----------------------------------------------------------------------------
(* JSON text: JSON.stringify of the file metadata and JSON.parse.  The     *)
(* grammar covers objects whose values are strings, integers, true, false  *)
(* and null, with white space between tokens; no arrays, nested objects,   *)
(* fractions or exponents.                                                 *)

HexDigits == <<48, 49, 50, 51, 52, 53, 54, 55, 56, 57, 97, 98, 99, 100, 101, 102>>

\* the value of a hexadecimal digit, or -1
HexValue(c) ==
    IF c >= 48 /\ c <= 57 THEN c - 48
    ELSE IF c >= 97 /\ c <= 102 THEN c - 87
    ELSE IF c >= 65 /\ c <= 70 THEN c - 55
    ELSE -1

IsDigit(c) == c >= 48 /\ c <= 57
IsWhiteSpace(c) == c \in {32, 9, 10, 13}

\* Number.prototype.toString of a non-negative integer
RECURSIVE NumberToString(_)
NumberToString(n) ==
    IF n < 10 THEN <<48 + n>>
    ELSE NumberToString(n \div 10) \o <<48 + (n % 10)>>

\* QuoteJSONString: one character of a string value
QuoteChar(c) ==
    IF c = 34 THEN <<92, 34>>
    ELSE IF c = 92 THEN <<92, 92>>
    ELSE IF c = 8 THEN <<92, 98>>
    ELSE IF c = 9 THEN <<92, 116>>
    ELSE IF c = 10 THEN <<92, 110>>
    ELSE IF c = 12 THEN <<92, 102>>
    ELSE IF c = 13 THEN <<92, 114>>
    ELSE IF c < 32 THEN <<92, 117, 48, 48, HexDigits[(c \div 16) + 1], HexDigits[(c % 16) + 1]>>
    ELSE <<c>>

RECURSIVE QuoteChars(_)
QuoteChars(str) ==
    IF Len(str) = 0 THEN <<>> ELSE QuoteChar(str[1]) \o QuoteChars(Tail(str))

QuoteJSONString(str) == <<34>> \o QuoteChars(str) \o <<34>>

\* JSON.stringify({ filename, type, size, timestamp })
JSONstringify(metadata) ==
    <<123>> \o QuoteJSONString(<<102, 105, 108, 101, 110, 97, 109, 101>>) \o <<58>>
            \o QuoteJSONString(metadata.filename)
    \o <<44>> \o QuoteJSONString(<<116, 121, 112, 101>>) \o <<58>>
            \o QuoteJSONString(metadata.type)
    \o <<44>> \o QuoteJSONString(<<115, 105, 122, 101>>) \o <<58>>
            \o NumberToString(metadata.size)
    \o <<44>> \o QuoteJSONString(<<116, 105, 109, 101, 115, 116, 97, 109, 112>>) \o <<58>>
            \o NumberToString(metadata.timestamp)
    \o <<125>>

\* a failed parse (JSON.parse throws SyntaxError)
SyntaxError == [ok |-> FALSE]

\* the position of the first character at or after i that is not white space
RECURSIVE SkipWhiteSpace(_, _)
SkipWhiteSpace(s, i) ==
    IF i <= Len(s) /\ IsWhiteSpace(s[i]) THEN SkipWhiteSpace(s, i + 1) ELSE i

\* the characters of a string value from position i (after the opening
\* quote) up to the closing quote
RECURSIVE ScanString(_, _, _)
ScanString(s, i, acc) ==
    IF i > Len(s) THEN SyntaxError
    ELSE IF s[i] = 34 THEN [ok |-> TRUE, val |-> [t |-> "string", v |-> acc], next |-> i + 1]
    ELSE IF s[i] < 32 THEN SyntaxError
    ELSE IF s[i] # 92 THEN ScanString(s, i + 1, Append(acc, s[i]))
    ELSE IF i + 1 > Len(s) THEN SyntaxError
    ELSE LET e == s[i + 1] IN
         IF e \in {34, 92, 47} THEN ScanString(s, i + 2, Append(acc, e))
         ELSE IF e = 98 THEN ScanString(s, i + 2, Append(acc, 8))
         ELSE IF e = 102 THEN ScanString(s, i + 2, Append(acc, 12))
         ELSE IF e = 110 THEN ScanString(s, i + 2, Append(acc, 10))
         ELSE IF e = 114 THEN ScanString(s, i + 2, Append(acc, 13))
         ELSE IF e = 116 THEN ScanString(s, i + 2, Append(acc, 9))
         ELSE IF e = 117 /\ i + 5 <= Len(s)
                 /\ \A k \in 2..5 : HexValue(s[i + k]) >= 0
              THEN ScanString(s, i + 6,
                      Append(acc, HexValue(s[i + 2]) * 4096 + HexValue(s[i + 3]) * 256
                                  + HexValue(s[i + 4]) * 16 + HexValue(s[i + 5])))
         ELSE SyntaxError

\* the digits of an integer from position i
RECURSIVE ScanDigits(_, _, _)
ScanDigits(s, i, acc) ==
    IF i <= Len(s) /\ IsDigit(s[i]) THEN ScanDigits(s, i + 1, acc * 10 + (s[i] - 48))
    ELSE [ok |-> TRUE, val |-> [t |-> "number", v |-> acc], next |-> i]

\* an integer: an optional minus sign, then 0 or a digit string without a
\* leading zero
ScanNumber(s, i) ==
    LET neg == i <= Len(s) /\ s[i] = 45
        j == IF neg THEN i + 1 ELSE i
    IN  IF j > Len(s) \/ ~IsDigit(s[j]) THEN SyntaxError
        ELSE IF s[j] = 48 /\ j + 1 <= Len(s) /\ IsDigit(s[j + 1]) THEN SyntaxError
        ELSE LET d == ScanDigits(s, j, 0) IN
             IF d.next <= Len(s) /\ s[d.next] \in {46, 101, 69} THEN SyntaxError
             ELSE IF neg THEN [d EXCEPT !.val.v = 0 - @] ELSE d

\* the literal word at position i
ScanLiteral(s, i, word, tag) ==
    IF i + Len(word) - 1 <= Len(s) /\ SubSeq(s, i, i + Len(word) - 1) = word
    THEN [ok |-> TRUE, val |-> [t |-> tag, v |-> 0], next |-> i + Len(word)]
    ELSE SyntaxError

\* a value that is not an object
ScanScalar(s, i) ==
    IF i > Len(s) THEN SyntaxError
    ELSE IF s[i] = 34 THEN ScanString(s, i + 1, <<>>)
    ELSE IF s[i] = 45 \/ IsDigit(s[i]) THEN ScanNumber(s, i)
    ELSE IF s[i] = 116 THEN ScanLiteral(s, i, <<116, 114, 117, 101>>, "boolean")
    ELSE IF s[i] = 102 THEN ScanLiteral(s, i, <<102, 97, 108, 115, 101>>, "boolean")
    ELSE IF s[i] = 110 THEN ScanLiteral(s, i, <<110, 117, 108, 108>>, "null")
    ELSE SyntaxError

\* the members of an object from position i (at a key), added to acc, a
\* sequence of <<key, value>> pairs
RECURSIVE ScanMembers(_, _, _)
ScanMembers(s, i, acc) ==
    IF i > Len(s) \/ s[i] # 34 THEN SyntaxError
    ELSE LET key == ScanString(s, i + 1, <<>>) IN
         IF ~key.ok THEN SyntaxError
         ELSE LET c == SkipWhiteSpace(s, key.next) IN
              IF c > Len(s) \/ s[c] # 58 THEN SyntaxError
              ELSE LET value == ScanScalar(s, SkipWhiteSpace(s, c + 1)) IN
                   IF ~value.ok THEN SyntaxError
                   ELSE LET e == SkipWhiteSpace(s, value.next)
                            members == Append(acc, <<key.val.v, value.val>>)
                        IN  IF e > Len(s) THEN SyntaxError
                            ELSE IF s[e] = 125
                                THEN [ok |-> TRUE, val |-> [t |-> "object", v |-> members],
                                      next |-> e + 1]
                            ELSE IF s[e] = 44
                                THEN ScanMembers(s, SkipWhiteSpace(s, e + 1), members)
                            ELSE SyntaxError

\* JSON.parse(text): [ok, val], or SyntaxError
JSONparse(text) ==
    LET i == SkipWhiteSpace(text, 1)
        value == IF i <= Len(text) /\ text[i] = 123
                 THEN LET j == SkipWhiteSpace(text, i + 1) IN
                      IF j <= Len(text) /\ text[j] = 125
                      THEN [ok |-> TRUE, val |-> [t |-> "object", v |-> <<>>], next |-> j + 1]
                      ELSE ScanMembers(text, j, <<>>)
                 ELSE ScanScalar(text, i)
    IN  IF ~value.ok THEN SyntaxError
        ELSE IF SkipWhiteSpace(text, value.next) <= Len(text) THEN SyntaxError
        ELSE [ok |-> TRUE, val |-> value.val]

\* obj.name of a parsed object: the value of the last member with that key,
\* or undefined
RECURSIVE GetMember(_, _, _)
GetMember(members, name, k) ==
    IF k = 0 THEN [t |-> "undefined", v |-> 0]
    ELSE IF members[k][1] = name THEN members[k][2]
    ELSE GetMember(members, name, k - 1)

Get(obj, name) == GetMember(obj.v, name, Len(obj.v))

----------------------------------------------------------------------------
(* Files: encryptFile, decryptFile and isEncryptedFile of lib/crypto.ts *)

\* DataView.setUint32(0, n, false): big-endian
setUint32BigEndian(n) ==
    <<(n \div 16777216) % 256, (n \div 65536) % 256, (n \div 256) % 256, n % 256>>
\* DataView.setUint32(0, n, true): the four bytes, little-endian
setUint32(n) ==
    <<n % 256, (n \div 256) % 256, (n \div 65536) % 256, (n \div 16777216) % 256>>

\* DataView.getUint32(0, true) of four bytes.  Integers here are 32-bit
\* signed: a value of 2^31 or more stands as 2^31 - 1, which like it is
\* larger than the length of any buffer.
getUint32(bytes) ==
    IF bytes[4] >= 128 THEN 2147483647
    ELSE bytes[1] + 256 * bytes[2] + 65536 * bytes[3] + 16777216 * bytes[4]

\* array.slice(begin, begin + count), the end clamped to the length
SliceCount(bytes, begin, count) ==
    IF begin >= Len(bytes) THEN <<>>
    ELSE IF count >= Len(bytes) - begin THEN SubSeq(bytes, begin + 1, Len(bytes))
    ELSE SubSeq(bytes, begin + 1, begin + count)

\* array.slice(begin) after skipping count more bytes
SliceFrom(bytes, begin, count) ==
    IF begin >= Len(bytes) \/ count >= Len(bytes) - begin THEN <<>>
    ELSE SubSeq(bytes, begin + count + 1, Len(bytes))

\* the plaintext that encryptFile encrypts:
\* metadataLength || metadataBytes || fileData
combinedData(file, timestamp) ==
    LET metadata == [filename |-> file.name, type |-> file.type,
                     size |-> Len(file.data), timestamp |-> timestamp]
        metadataBytes == TextEncode(JSONstringify(metadata))
        metadataLength == setUint32(Len(metadataBytes))
    IN  metadataLength \o metadataBytes \o file.data

\* encryptFile with the key and iv drawn by the Web Crypto API and the
\* value of Date.now()
encryptFile(file, key, iv, timestamp) ==
    [ciphertext |-> AesGcmEncrypt(key, iv, combinedData(file, timestamp)),
     iv |-> iv, key |-> key,
     filename |-> file.name, type |-> file.type, size |-> Len(file.data)]

\* metadata.name of a parsed value that is not null
Property(value, name) ==
    IF value.t = "object" THEN Get(value, name) ELSE [t |-> "undefined", v |-> 0]

\* a rejected promise of decryptFile
FileThrown == [thrown |-> TRUE]

\* decryptFile: data and the filename, type and size of the metadata (as
\* parsed values), or FileThrown
decryptFile(ciphertext, keyData, iv) ==
    LET decryptedData == AesGcmDecrypt(ciphertext, keyData, iv) IN
    IF decryptedData = Thrown THEN FileThrown
    ELSE IF Len(decryptedData) < 4 THEN FileThrown
    ELSE LET metadataLength == getUint32(decryptedData)
             metadataBytes == SliceCount(decryptedData, 4, metadataLength)
             metadata == JSONparse(TextDecode(metadataBytes))
             fileData == SliceFrom(decryptedData, 4, metadataLength)
         IN  IF ~metadata.ok THEN FileThrown
             ELSE IF metadata.val.t = "null" THEN FileThrown
             ELSE [thrown |-> FALSE,
                   data |-> fileData,
                   filename |-> Property(metadata.val, <<102, 105, 108, 101, 110, 97, 109, 101>>),
                   type |-> Property(metadata.val, <<116, 121, 112, 101>>),
                   size |-> Property(metadata.val, <<115, 105, 122, 101>>)]

\* isEncryptedFile
isEncryptedFile(data) ==
    IF Len(data) < 4 THEN FALSE
    ELSE LET metadataLength == getUint32(data) IN
         IF metadataLength > Len(data) - 4 \/ metadataLength <= 0 THEN FALSE
         ELSE LET metadataBytes == SliceCount(data, 4, metadataLength)
                  metadataStr == TextDecode(metadataBytes)
                  metadata == JSONparse(metadataStr)
              IN  IF ~metadata.ok THEN FALSE
                  ELSE IF metadata.val.t = "null" THEN FALSE
                  ELSE /\ Property(metadata.val, <<102, 105, 108, 101, 110, 97, 109, 101>>).t = "string"
                       /\ Property(metadata.val, <<116, 121, 112, 101>>).t = "string"

----------------------------------------------------------------------------
(* The claim store: a Map from claimId to a reference to an entry object *)

EmptyMap == [k \in {} |-> 0]
MapHas(m, k) == k \in DOMAIN m
MapSet(m, k, ref) == [x \in DOMAIN m \cup {k} |-> IF x = k THEN ref ELSE m[x]]
MapDelete(m, k) == [x \in DOMAIN m \ {k} |-> m[x]]

\* the request records before the handler is invoked
IdleInit ==
    [pc |-> "idle", body |-> Garbage, claimId |-> <<>>, token |-> <<>>,
     validMaxUses |-> 0, ttl |-> 0, resp |-> NoResponse]
IdleClaim ==
    [pc |-> "idle", body |-> Garbage, entry |-> 0, startedAt |-> 0,
     overlap |-> {}, live |-> FALSE, resp |-> NoResponse]

----------------------------------------------------------------------------
(* POST /api/claim/init *)

\* typeof maxUses === 'number' && maxUses >= 1 && maxUses <= 5 ? maxUses : 1
\* (an absent maxUses takes the parameter default 1)
validMaxUsesFloor(maxUses) ==
    IF maxUses.t = "number" /\ maxUses.v >= 1 * Denom /\ maxUses.v <= 5 * Denom
    THEN (maxUses.v \div Denom) * Denom ELSE 1 * Denom
validMaxUses(maxUses) ==
    IF maxUses.t = "number" /\ maxUses.v >= 1 * Denom /\ maxUses.v <= 5 * Denom
    THEN maxUses.v ELSE 1 * Denom

\* typeof ttlSeconds === 'number' && ttlSeconds > 0 ? ttlSeconds : 3600
ttlOf(ttlSeconds) ==
    IF ttlSeconds.t = "number" /\ ttlSeconds.v > 0 THEN ttlSeconds.v ELSE 3600 * Denom

\* Date.now() + ttl * 1000
MsPerSecond == 1000
expiresAtOf(t, ttl) == t + (ttl * MsPerSecond) \div Denom

\* the request arrives: the route module is loaded (which creates the map
\* when it is missing) and the handler runs up to `await req.json()`
InitArrive(i, body) ==
    /\ initReq[i].pc = "idle"
    /\ \A j \in InitReqs : j < i => initReq[j].pc # "idle"
    /\ initReq' = [initReq EXCEPT ![i] = [@ EXCEPT !.pc = "json", !.body = body]]
    /\ storeCreated' = TRUE
    /\ UNCHANGED <<now, fl_claims, heap, claimReq, dead>>

\* from the parsed body to `await sha256Base64Url(token)`, with randomId()
\* returning a claimId of the set ids
InitDraw(i, ids) ==
    /\ initReq[i].pc = "json"
    /\ LET body == initReq[i].body IN
       IF ~body.parsable THEN
            /\ initReq' = [initReq EXCEPT ![i] =
                  [@ EXCEPT !.pc = "done",
                            !.resp = Json(500, [error |-> TextInitFailed])]]
       ELSE IF Falsy(body.share2B64Url) \/ body.share2B64Url.t # "string" THEN
            /\ initReq' = [initReq EXCEPT ![i] =
                  [@ EXCEPT !.pc = "done",
                            !.resp = Json(400, [error |-> TextShareRequired])]]
       ELSE \E claimId \in ids, token \in TokenPool :
            /\ initReq' = [initReq EXCEPT ![i] =
                  [@ EXCEPT !.pc = "hash",
                            !.validMaxUses = validMaxUses(body.maxUses),
                            !.ttl = ttlOf(body.ttlSeconds),
                            !.claimId = claimId,
                            !.token = token]]
    /\ UNCHANGED <<now, storeCreated, fl_claims, heap, claimReq, dead>>

\* the same with a claimId that no request has drawn before (a repeated
\* draw of 22 characters has probability 62^-22)
InitParse(i) ==
    InitDraw(i, ClaimIdPool \ (DOMAIN fl_claims \cup dead
                               \cup {initReq[j].claimId : j \in InitReqs}))

\* after the hash: expiresAt, store.__fl_claims.set and the response
InitStore(i) ==
    /\ initReq[i].pc = "hash"
    /\ LET tokenHash == sha256Base64Url(initReq[i].token)
           expiresAt == expiresAtOf(now, initReq[i].ttl)
       IN  /\ heap' = [o \in DOMAIN heap \cup {i} |->
                        IF o = i
                        THEN [share2 |-> initReq[i].body.share2B64Url.v,
                              tokenHash |-> tokenHash,
                              expiresAt |-> expiresAt,
                              maxUses |-> initReq[i].validMaxUses,
                              usesRemaining |-> initReq[i].validMaxUses]
                        ELSE heap[o]]
           /\ fl_claims' = MapSet(fl_claims, initReq[i].claimId, i)
           /\ initReq' = [initReq EXCEPT ![i] =
                 [@ EXCEPT !.pc = "done",
                           !.resp = Json(200, [claimId |-> initReq[i].claimId,
                                               token |-> initReq[i].token])]]
    /\ UNCHANGED <<now, storeCreated, claimReq, dead>>

----------------------------------------------------------------------------
(* POST /api/claim *)

\* Date.now() > entry.expiresAt
IsExpiredAtOrAfter(t, expiresAt) == t >= expiresAt
IsExpiredInSeconds(t, expiresAt) == t \div MsPerSecond > expiresAt
IsExpired(t, expiresAt) == t > expiresAt

\* the request arrives; the handler runs up to `await req.json()`
ClaimArrive(r, body) ==
    /\ claimReq[r].pc = "idle"
    /\ \A q \in ClaimReqs : q < r => claimReq[q].pc # "idle"
    /\ claimReq' = [claimReq EXCEPT ![r] =
          [@ EXCEPT !.pc = "json", !.body = body, !.startedAt = now,
                    \* history: the requests in flight and whether the record is stored
                    !.overlap = {q \in ClaimReqs : claimReq[q].pc \in {"json", "hash"}},
                    !.live = body.parsable /\ body.claimId.t = "string"
                             /\ MapHas(fl_claims, body.claimId.v)]]
    /\ UNCHANGED <<now, storeCreated, fl_claims, heap, initReq, dead>>

\* the checks with the token compared before the expiry test
ClaimChecksTokenFirst(body) ==
    IF ~body.parsable THEN Json(500, [error |-> TextClaimFailed])
    ELSE IF Falsy(body.claimId) \/ Falsy(body.token)
        THEN Json(400, [error |-> TextInvalidRequest])
    ELSE IF ~storeCreated THEN Json(500, [error |-> TextNotInitialized])
    ELSE IF ~MapHas(fl_claims, body.claimId.v) THEN Json(404, [error |-> TextNotFound])
    ELSE IF heap[fl_claims[body.claimId.v]].usesRemaining <= 0
        THEN Json(409, [error |-> TextExhausted])
    ELSE IF sha256Base64Url(body.token.v) # heap[fl_claims[body.claimId.v]].tokenHash
        THEN Json(401, [error |-> TextUnauthorized])
    ELSE IF IsExpired(now, heap[fl_claims[body.claimId.v]].expiresAt)
        THEN Json(410, [error |-> TextExpired])
    ELSE NoResponse
\* the answer of the checks made before `await sha256Base64Url(token)`;
\* status 0 when they all pass
ClaimChecks(body) ==
    IF ~body.parsable THEN Json(500, [error |-> TextClaimFailed])
    ELSE IF Falsy(body.claimId) \/ Falsy(body.token)
        THEN Json(400, [error |-> TextInvalidRequest])
    ELSE IF ~storeCreated THEN Json(500, [error |-> TextNotInitialized])
    ELSE IF ~MapHas(fl_claims, body.claimId.v) THEN Json(404, [error |-> TextNotFound])
    ELSE IF heap[fl_claims[body.claimId.v]].usesRemaining <= 0
        THEN Json(409, [error |-> TextExhausted])
    ELSE IF IsExpired(now, heap[fl_claims[body.claimId.v]].expiresAt)
        THEN Json(410, [error |-> TextExpired])
    ELSE NoResponse

\* from the parsed body to `await sha256Base64Url(token)`
ClaimLookup(r) ==
    /\ claimReq[r].pc = "json"
    /\ LET body == claimReq[r].body
           res == ClaimChecks(body)
       IN  IF res.status = 0 THEN
                /\ claimReq' = [claimReq EXCEPT ![r] =
                      [@ EXCEPT !.pc = "hash", !.entry = fl_claims[body.claimId.v]]]
                /\ UNCHANGED <<fl_claims, dead>>
           ELSE
                /\ claimReq' = [claimReq EXCEPT ![r] =
                      [@ EXCEPT !.pc = "done", !.resp = res]]
                /\ IF res.status = 410
                   THEN /\ fl_claims' = MapDelete(fl_claims, body.claimId.v)
                        /\ dead' = dead \cup {body.claimId.v}
                   ELSE UNCHANGED <<fl_claims, dead>>
    /\ UNCHANGED <<now, storeCreated, heap, initReq>>

\* the body of a successful claim response
ClaimBodyWhole(entry) == entry
ClaimBody(entry) ==
    [share2B64Url |-> entry.share2,
     usesRemaining |-> entry.usesRemaining,
     maxUses |-> entry.maxUses]

\* after the hash: the token comparison, the decrement of the entry object
\* the handler holds, the delete or set, and the response
ClaimFinishEager(r) ==
    /\ claimReq[r].pc = "hash"
    /\ LET o == claimReq[r].entry
           claimId == claimReq[r].body.claimId.v
           tokenHash == sha256Base64Url(claimReq[r].body.token.v)
           entry == [heap[o] EXCEPT !.usesRemaining = @ - 1 * Denom]
       IN  /\ heap' = [heap EXCEPT ![o] = entry]
           /\ IF entry.usesRemaining <= 0
              THEN /\ fl_claims' = MapDelete(fl_claims, claimId)
                   /\ dead' = dead \cup {claimId}
              ELSE /\ fl_claims' = MapSet(fl_claims, claimId, o)
                   /\ UNCHANGED dead
           /\ claimReq' = [claimReq EXCEPT ![r] =
                 [@ EXCEPT !.pc = "done",
                           !.resp = IF tokenHash # heap[o].tokenHash
                                    THEN Json(401, [error |-> TextUnauthorized])
                                    ELSE Json(200, ClaimBody(entry))]]
    /\ UNCHANGED <<now, storeCreated, initReq>>

ClaimFinish(r) ==
    /\ claimReq[r].pc = "hash"
    /\ LET o == claimReq[r].entry
           claimId == claimReq[r].body.claimId.v
           tokenHash == sha256Base64Url(claimReq[r].body.token.v)
           entry == [heap[o] EXCEPT !.usesRemaining = @ - 1 * Denom]
       IN  IF tokenHash # heap[o].tokenHash THEN
                /\ claimReq' = [claimReq EXCEPT ![r] =
                      [@ EXCEPT !.pc = "done",
                                !.resp = Json(401, [error |-> TextUnauthorized])]]
                /\ UNCHANGED <<fl_claims, heap, dead>>
           ELSE
                /\ heap' = [heap EXCEPT ![o] = entry]
                /\ IF entry.usesRemaining <= 0
                   THEN /\ fl_claims' = MapDelete(fl_claims, claimId)
                        /\ dead' = dead \cup {claimId}
                   ELSE /\ fl_claims' = MapSet(fl_claims, claimId, o)
                        /\ UNCHANGED dead
                /\ claimReq' = [claimReq EXCEPT ![r] =
                      [@ EXCEPT !.pc = "done", !.resp = Json(200, ClaimBody(entry))]]
    /\ UNCHANGED <<now, storeCreated, initReq>>

----------------------------------------------------------------------------
(* Time *)

\* the clock advances by whole seconds
Tick ==
    /\ now + MsPerSecond <= MaxTicks * MsPerSecond
    /\ now' = now + MsPerSecond
    /\ UNCHANGED <<storeCreated, fl_claims, heap, initReq, claimReq, dead>>

----------------------------------------------------------------------------
(* Walrus (lib/walrus.ts) *)

\* 'FLAMELINK_BURNED'
BURNED_MARKER ==
    <<70, 76, 65, 77, 69, 76, 73, 78, 75, 95, 66, 85, 82, 78, 69, 68>>

\* 'Secret not found or has been burned'
MsgSecretNotFound ==
    <<83, 101, 99, 114, 101, 116, 32, 110, 111, 116, 32, 102, 111, 117, 110,
      100, 32, 111, 114, 32, 104, 97, 115, 32, 98, 101, 101, 110, 32, 98,
      117, 114, 110, 101, 100>>

\* 'Failed to retrieve secret: 500 '
MsgRetrieveFailed ==
    <<70, 97, 105, 108, 101, 100, 32, 116, 111, 32, 114, 101, 116, 114, 105,
      101, 118, 101, 32, 115, 101, 99, 114, 101, 116, 58, 32, 53, 48, 48, 32>>

\* 'Secret has been burned'
MsgSecretBurned ==
    <<83, 101, 99, 114, 101, 116, 32, 104, 97, 115, 32, 98, 101, 101, 110,
      32, 98, 117, 114, 110, 101, 100>>

\* 'Mismatched key share lengths'
MsgMismatchedShares ==
    <<77, 105, 115, 109, 97, 116, 99, 104, 101, 100, 32, 107, 101, 121, 32,
      115, 104, 97, 114, 101, 32, 108, 101, 110, 103, 116, 104, 115>>

\* 'The operation failed for an operation-specific reason'
MsgOperationError ==
    <<84, 104, 101, 32, 111, 112, 101, 114, 97, 116, 105, 111, 110, 32, 102,
      97, 105, 108, 101, 100, 32, 102, 111, 114, 32, 97, 110, 32, 111, 112,
      101, 114, 97, 116, 105, 111, 110, 45, 115, 112, 101, 99, 105, 102, 105,
      99, 32, 114, 101, 97, 115, 111, 110>>

\* 'The string to be decoded is not correctly encoded.'
MsgInvalidCharacter ==
    <<84, 104, 101, 32, 115, 116, 114, 105, 110, 103, 32, 116, 111, 32, 98,
      101, 32, 100, 101, 99, 111, 100, 101, 100, 32, 105, 115, 32, 110, 111,
      116, 32, 99, 111, 114, 114, 101, 99, 116, 108, 121, 32, 101, 110, 99,
      111, 100, 101, 100, 46>>

\* 'burned'
NeedleBurned ==
    <<98, 117, 114, 110, 101, 100>>

\* 'BURNED'
NeedleBURNED ==
    <<66, 85, 82, 78, 69, 68>>

\* 'not found'
NeedleNotFound ==
    <<110, 111, 116, 32, 102, 111, 117, 110, 100>>

\* '{"error":"'
JsonErrorOpen ==
    <<123, 34, 101, 114, 114, 111, 114, 34, 58, 34>>

\* '"}'
JsonErrorClose ==
    <<34, 125>>


\* str.includes(needle)
Includes(str, needle) ==
    \E i \in 1..(Len(str) - Len(needle) + 1) :
        \A j \in 1..Len(needle) : str[i + j - 1] = needle[j]

\* the blobId the network gives the k-th distinct payload: "b" and a digit
BlobIdOf(k) == <<98, 48 + k>>
HasBlob(blobId) == \E k \in 1..Len(blobs) : BlobIdOf(k) = blobId
BlobAt(blobId) == blobs[CHOOSE k \in 1..Len(blobs) : BlobIdOf(k) = blobId]

\* PUT /v1/blobs: the store is content-addressed, a payload it already holds
\* keeps its address
IndexOfBlob(bs, data) ==
    CHOOSE k \in 1..Len(bs) : Len(bs[k]) = Len(data) /\ bs[k] = data
PutBlob(bs, data) ==
    IF \E k \in 1..Len(bs) : Len(bs[k]) = Len(data) /\ bs[k] = data
    THEN bs ELSE Append(bs, data)
\* storeSecret: the blobId of the response
storeSecret(bs, data) == BlobIdOf(IndexOfBlob(PutBlob(bs, data), data))

\* retrieveSecret: the bytes, or the message of the Error it throws
retrieveSecret(blobId, networkOk) ==
    IF ~networkOk THEN [ok |-> FALSE, message |-> MsgRetrieveFailed]
    ELSE IF ~HasBlob(blobId) THEN [ok |-> FALSE, message |-> MsgSecretNotFound]
    ELSE IF Len(BlobAt(blobId)) = Len(TextEncode(BURNED_MARKER))
            /\ BlobAt(blobId) = TextEncode(BURNED_MARKER)
        THEN [ok |-> FALSE, message |-> MsgSecretBurned]
    ELSE [ok |-> TRUE, data |-> BlobAt(blobId)]

\* a burn that replaces what every address resolves to by the marker
burnSecretOverwrite(bs, putOk) ==
    IF putOk THEN [k \in 1..Len(bs) |-> TextEncode(BURNED_MARKER)] ELSE bs
\* burnSecret: a PUT of the marker, whose failure is swallowed
burnSecret(bs, putOk) == IF putOk THEN PutBlob(bs, TextEncode(BURNED_MARKER)) ELSE bs

----------------------------------------------------------------------------
(* The create page: handleSubmit *)

\* secret.trim() is empty
RECURSIVE IsBlank(_)
IsBlank(str) == Len(str) = 0 \/ (str[1] = 32 /\ IsBlank(Tail(str)))

\* encryptSecret with the key and iv drawn by the Web Crypto API
encryptSecret(plaintext, key, iv) ==
    [ciphertext |-> AesGcmEncrypt(key, iv, TextEncode(plaintext)), iv |-> iv, key |-> key]

\* the body of the fetch to /api/claim/init; create/page.tsx sends no maxUses
InitRequestBodyShare1(split, maxRecipients) ==
    [parsable |-> TRUE,
     share2B64Url |-> Str(arrayBufferToBase64Url(split.share1)),
     ttlSeconds |-> N(3600),
     maxUses |-> maxRecipients]
InitRequestBody(split, maxRecipients) ==
    [parsable |-> TRUE,
     share2B64Url |-> Str(arrayBufferToBase64Url(split.share2)),
     ttlSeconds |-> N(3600),
     maxUses |-> maxRecipients]

IdleCreate ==
    [state |-> "input", pc |-> "idle", secret |-> <<>>, maxRecipients |-> Undefined,
     key |-> <<>>, iv |-> <<>>, combinedData |-> <<>>, blobId |-> <<>>,
     share1 |-> <<>>, share2 |-> <<>>, slot |-> 0, secretLink |-> <<>>, error |-> <<>>]

\* 'Please enter a secret to share'
MsgEnterSecret == <<80, 108, 101, 97, 115, 101, 32, 101, 110, 116, 101, 114, 32, 97, 32, 115, 101, 99, 114, 101, 116, 32, 116, 111, 32, 115, 104, 97, 114, 101>>
\* 'Walrus storage failed'
MsgStoreFailed == <<87, 97, 108, 114, 117, 115, 32, 115, 116, 111, 114, 97, 103, 101, 32, 102, 97, 105, 108, 101, 100>>

\* the form is submitted: validation, encryptSecret, combinedData, and the
\* PUT of storeSecret is sent
HandleSubmit(secret, maxRecipients, key, iv) ==
    /\ create.pc = "idle"
    /\ create.state = "input"
    /\ IF IsBlank(secret)
       THEN create' = [create EXCEPT !.error = MsgEnterSecret]
       ELSE LET encrypted == encryptSecret(secret, key, iv) IN
            create' = [create EXCEPT
                          !.state = "generating", !.pc = "storeSecret", !.error = <<>>,
                          !.secret = secret, !.maxRecipients = maxRecipients,
                          !.key = encrypted.key, !.iv = encrypted.iv,
                          !.combinedData = encrypted.iv \o encrypted.ciphertext]
    /\ UNCHANGED <<blobs, reveal, pure>>
    /\ UNCHANGED gateVars

\* storeSecret succeeded: splitKeyXor and the fetch of /api/claim/init
StoreSecretOk(share1) ==
    /\ create.pc = "storeSecret"
    /\ blobs' = PutBlob(blobs, create.combinedData)
    /\ LET split == splitKeyXor(create.key, share1) IN
       \E i \in InitReqs :
          /\ InitArrive(i, InitRequestBody(split, create.maxRecipients))
          /\ create' = [create EXCEPT
                           !.pc = "initFetch",
                           !.blobId = storeSecret(blobs, create.combinedData),
                           !.share1 = split.share1, !.share2 = split.share2,
                           !.slot = i]
    /\ UNCHANGED <<reveal, pure>>

\* storeSecret threw: the catch of handleSubmit
StoreSecretFail ==
    /\ create.pc = "storeSecret"
    /\ create' = [create EXCEPT !.state = "input", !.pc = "idle", !.error = MsgStoreFailed]
    /\ UNCHANGED <<blobs, reveal, pure>>
    /\ UNCHANGED gateVars

\* the response of /api/claim/init: the link, or the catch
CreateInitResponse ==
    /\ create.pc = "initFetch"
    /\ initReq[create.slot].pc = "done"
    /\ LET res == initReq[create.slot].resp IN
       IF res.status # 200
       THEN create' = [create EXCEPT
                          !.state = "input", !.pc = "idle",
                          !.error = JsonErrorOpen \o res.body.error \o JsonErrorClose]
       ELSE create' = [create EXCEPT
                          !.state = "success", !.pc = "done",
                          !.secretLink = generateSecretUrlKeySplit(
                              create.blobId, create.share1, create.iv,
                              res.body.claimId, res.body.token)]
    /\ UNCHANGED <<blobs, reveal, pure>>
    /\ UNCHANGED gateVars

----------------------------------------------------------------------------
(* The secret page: the parse on load and handleReveal *)

\* 'Invalid secret link format'
MsgInvalidLink == <<73, 110, 118, 97, 108, 105, 100, 32, 115, 101, 99, 114, 101, 116, 32, 108, 105, 110, 107, 32, 102, 111, 114, 109, 97, 116>>
\* 'Invalid encryption parameters'
MsgInvalidParameters == <<73, 110, 118, 97, 108, 105, 100, 32, 101, 110, 99, 114, 121, 112, 116, 105, 111, 110, 32, 112, 97, 114, 97, 109, 101, 116, 101, 114, 115>>
\* 'Secret not found or has expired'
MsgNotFoundOrExpired == <<83, 101, 99, 114, 101, 116, 32, 110, 111, 116, 32, 102, 111, 117, 110, 100, 32, 111, 114, 32, 104, 97, 115, 32, 101, 120, 112, 105, 114, 101, 100>>

ClosedReveal ==
    [state |-> "closed", pc |-> "idle", parsed |-> NoParse, ciphertext |-> <<>>,
     slot |-> 0, fullKey |-> <<>>, decryptedSecret |-> <<>>, secret |-> <<>>,
     error |-> <<>>]

\* the catch of handleReveal, given the message of the Error
CatchRevealRetry(rec, message) ==
    [rec EXCEPT !.state = "ready", !.pc = "idle", !.error = message]
CatchReveal(rec, message) ==
    IF Includes(message, NeedleBurned) \/ Includes(message, NeedleBURNED)
    THEN [rec EXCEPT !.state = "burned", !.pc = "done"]
    ELSE IF Includes(message, NeedleNotFound)
    THEN [rec EXCEPT !.state = "error", !.pc = "done", !.error = MsgNotFoundOrExpired]
    ELSE [rec EXCEPT !.state = "error", !.pc = "done", !.error = message]

\* the same handler in its later version (with file support): the mapping
\* of a non-OK claim response to the message of the Error, and the catch
\* 'This secret has already been accessed and destroyed'
MsgAlreadyAccessed ==
    <<84, 104, 105, 115, 32, 115, 101, 99, 114, 101, 116, 32, 104, 97, 115,
      32, 97, 108, 114, 101, 97, 100, 121, 32, 98, 101, 101, 110, 32, 97,
      99, 99, 101, 115, 115, 101, 100, 32, 97, 110, 100, 32, 100, 101, 115,
      116, 114, 111, 121, 101, 100>>

\* 'All views of this secret have been used and it has been destroyed'
MsgAllViewsUsed ==
    <<65, 108, 108, 32, 118, 105, 101, 119, 115, 32, 111, 102, 32, 116, 104,
      105, 115, 32, 115, 101, 99, 114, 101, 116, 32, 104, 97, 118, 101, 32,
      98, 101, 101, 110, 32, 117, 115, 101, 100, 32, 97, 110, 100, 32, 105,
      116, 32, 104, 97, 115, 32, 98, 101, 101, 110, 32, 100, 101, 115, 116,
      114, 111, 121, 101, 100>>

\* 'Claim failed'
MsgClaimFailed ==
    <<67, 108, 97, 105, 109, 32, 102, 97, 105, 108, 101, 100>>

\* 'already been accessed'
NeedleAlreadyAccessed ==
    <<97, 108, 114, 101, 97, 100, 121, 32, 98, 101, 101, 110, 32, 97, 99,
      99, 101, 115, 115, 101, 100>>

\* 'Already claimed'
NeedleAlreadyClaimed ==
    <<65, 108, 114, 101, 97, 100, 121, 32, 99, 108, 97, 105, 109, 101, 100>>

\* 'All uses exhausted'
NeedleAllUsesExhausted ==
    <<65, 108, 108, 32, 117, 115, 101, 115, 32, 101, 120, 104, 97, 117, 115,
      116, 101, 100>>

\* errorMessage, from errorData.error of the parsed response body
claimErrorMessage(error) ==
    IF error = <<>> THEN MsgClaimFailed
    ELSE IF Includes(error, NeedleAlreadyClaimed) THEN MsgAlreadyAccessed
    ELSE IF Includes(error, NeedleAllUsesExhausted) THEN MsgAllViewsUsed
    ELSE error

\* the view state and error text set by the catch, given the message
CatchRevealFiles(rec, message) ==
    IF Includes(message, NeedleBurned) \/ Includes(message, NeedleBURNED)
    THEN [rec EXCEPT !.state = "burned", !.pc = "done"]
    ELSE IF \/ Includes(message, NeedleAlreadyAccessed)
            \/ Includes(message, NeedleAlreadyClaimed)
            \/ Includes(message, NeedleAllUsesExhausted)
    THEN [rec EXCEPT !.state = "burned", !.pc = "done"]
    ELSE IF Includes(message, NeedleNotFound)
    THEN [rec EXCEPT !.state = "error", !.pc = "done", !.error = MsgNotFoundOrExpired]
    ELSE [rec EXCEPT !.state = "error", !.pc = "done", !.error = message]

\* from the full key to the PUT of burnSecret: decryptSecret, or the catch
DecryptStep(rec, ciphertext, fullKey) ==
    LET decryptedSecret == decryptSecret(ciphertext, fullKey, rec.parsed.iv) IN
    IF decryptedSecret = Thrown
    THEN CatchReveal([rec EXCEPT !.fullKey = fullKey], MsgOperationError)
    ELSE [rec EXCEPT !.pc = "burnSecret", !.fullKey = fullKey,
                     !.decryptedSecret = decryptedSecret]

\* the page is opened on a link: the effect that runs parseSecretUrl
OpenPage(p, url) ==
    /\ reveal[p].state = "closed"
    /\ \A q \in DOMAIN reveal : q < p => reveal[q].state # "closed"
    /\ LET parsedUrl == parseSecretUrl(url) IN
       IF ~parsedUrl.ok
       THEN reveal' = [reveal EXCEPT ![p] =
                          [@ EXCEPT !.state = "error", !.pc = "done", !.error = MsgInvalidLink]]
       ELSE reveal' = [reveal EXCEPT ![p] =
                          [@ EXCEPT !.state = "ready", !.parsed = parsedUrl]]
    /\ UNCHANGED <<blobs, create, pure>>
    /\ UNCHANGED gateVars

\* the reveal button: up to `await retrieveSecret`
HandleReveal(p) ==
    /\ reveal[p].state = "ready"
    /\ reveal[p].pc = "idle"
    /\ reveal' = [reveal EXCEPT ![p] = [@ EXCEPT !.state = "retrieving", !.pc = "retrieveSecret"]]
    /\ UNCHANGED <<blobs, create, pure>>
    /\ UNCHANGED gateVars

\* the same handler step without the comparison of the stored iv
RetrieveResponseNoIvCheck(p, networkOk) ==
    /\ reveal[p].pc = "retrieveSecret"
    /\ LET rec == reveal[p]
           res == retrieveSecret(rec.parsed.blobId, networkOk)
       IN
       IF ~res.ok THEN
            /\ reveal' = [reveal EXCEPT ![p] = CatchReveal(rec, res.message)]
            /\ UNCHANGED gateVars
       ELSE LET encryptedData == res.data
                storedIv == SubSeq(encryptedData, 1,
                                   IF Len(encryptedData) < IvLen THEN Len(encryptedData) ELSE IvLen)
                ciphertext == SubSeq(encryptedData, IvLen + 1, Len(encryptedData))
            IN
            IF FALSE THEN
                /\ reveal' = [reveal EXCEPT ![p] =
                      [rec EXCEPT !.state = "error", !.pc = "done",
                                  !.error = MsgInvalidParameters]]
                /\ UNCHANGED gateVars
            ELSE IF rec.parsed.hasKey THEN
                /\ reveal' = [reveal EXCEPT ![p] =
                      DecryptStep([rec EXCEPT !.state = "decrypting"], ciphertext,
                                  rec.parsed.key)]
                /\ UNCHANGED gateVars
            ELSE \E r \in ClaimReqs :
                /\ ClaimArrive(r, [parsable |-> TRUE,
                                   claimId |-> Str(rec.parsed.claimId),
                                   token |-> Str(rec.parsed.token)])
                /\ reveal' = [reveal EXCEPT ![p] =
                      [rec EXCEPT !.state = "decrypting", !.pc = "claimFetch",
                                  !.ciphertext = ciphertext, !.slot = r]]
    /\ UNCHANGED <<blobs, create, pure>>
\* retrieveSecret returned or threw: the iv comparison, then either the
\* legacy key and the decryption, or the fetch of /api/claim
RetrieveResponse(p, networkOk) ==
    /\ reveal[p].pc = "retrieveSecret"
    /\ LET rec == reveal[p]
           res == retrieveSecret(rec.parsed.blobId, networkOk)
       IN
       IF ~res.ok THEN
            /\ reveal' = [reveal EXCEPT ![p] = CatchReveal(rec, res.message)]
            /\ UNCHANGED gateVars
       ELSE LET encryptedData == res.data
                storedIv == SubSeq(encryptedData, 1,
                                   IF Len(encryptedData) < IvLen THEN Len(encryptedData) ELSE IvLen)
                ciphertext == SubSeq(encryptedData, IvLen + 1, Len(encryptedData))
            IN
            IF Len(storedIv) # Len(rec.parsed.iv) \/ storedIv # rec.parsed.iv THEN
                /\ reveal' = [reveal EXCEPT ![p] =
                      [rec EXCEPT !.state = "error", !.pc = "done",
                                  !.error = MsgInvalidParameters]]
                /\ UNCHANGED gateVars
            ELSE IF rec.parsed.hasKey THEN
                /\ reveal' = [reveal EXCEPT ![p] =
                      DecryptStep([rec EXCEPT !.state = "decrypting"], ciphertext,
                                  rec.parsed.key)]
                /\ UNCHANGED gateVars
            ELSE \E r \in ClaimReqs :
                /\ ClaimArrive(r, [parsable |-> TRUE,
                                   claimId |-> Str(rec.parsed.claimId),
                                   token |-> Str(rec.parsed.token)])
                /\ reveal' = [reveal EXCEPT ![p] =
                      [rec EXCEPT !.state = "decrypting", !.pc = "claimFetch",
                                  !.ciphertext = ciphertext, !.slot = r]]
    /\ UNCHANGED <<blobs, create, pure>>

\* the response of /api/claim: the throw on a non-OK status, or the share,
\* xorShares, decryptSecret and the PUT of burnSecret
ClaimResponse(p) ==
    /\ reveal[p].pc = "claimFetch"
    /\ claimReq[reveal[p].slot].pc = "done"
    /\ LET rec == reveal[p]
           res == claimReq[rec.slot].resp
       IN
       IF res.status # 200 THEN
            reveal' = [reveal EXCEPT ![p] =
                CatchReveal(rec, JsonErrorOpen \o res.body.error \o JsonErrorClose)]
       ELSE LET share2 == base64UrlToArrayBuffer(res.body.share2B64Url)
                combined == xorShares(rec.parsed.keyShare1, share2)
            IN
            IF share2 = Thrown THEN
                reveal' = [reveal EXCEPT ![p] = CatchReveal(rec, MsgInvalidCharacter)]
            ELSE IF combined = Thrown THEN
                reveal' = [reveal EXCEPT ![p] = CatchReveal(rec, MsgMismatchedShares)]
            ELSE reveal' = [reveal EXCEPT ![p] = DecryptStep(rec, rec.ciphertext, combined)]
    /\ UNCHANGED <<blobs, create, pure>>
    /\ UNCHANGED gateVars

\* burnSecret returned (it never throws): setSecret and the success state
BurnResponseThrows(p, putOk) ==
    /\ reveal[p].pc = "burnSecret"
    /\ blobs' = burnSecret(blobs, putOk)
    /\ reveal' = [reveal EXCEPT ![p] =
          IF putOk
          THEN [@ EXCEPT !.secret = reveal[p].decryptedSecret, !.state = "success",
                         !.pc = "done"]
          ELSE CatchReveal(reveal[p], MsgStoreFailed)]
    /\ UNCHANGED <<create, pure>>
    /\ UNCHANGED gateVars
BurnResponse(p, putOk) ==
    /\ reveal[p].pc = "burnSecret"
    /\ blobs' = burnSecret(blobs, putOk)
    /\ reveal' = [reveal EXCEPT ![p] =
          [@ EXCEPT !.secret = reveal[p].decryptedSecret, !.state = "success",
                     !.pc = "done"]]
    /\ UNCHANGED <<create, pure>>
    /\ UNCHANGED gateVars

----------------------------------------------------------------------------
(* The gate under arbitrary clients *)

\* a share as a client sends it
ShareSample == arrayBufferToBase64Url(<<165, 90>>)

InitBodies ==
    { [parsable |-> TRUE, share2B64Url |-> Str(ShareSample), ttlSeconds |-> t, maxUses |-> m] :
        t \in {N(1)},
        m \in {Undefined, Num(Denom + 1), N(2)} }
    \cup { [parsable |-> TRUE, share2B64Url |-> Undefined, ttlSeconds |-> N(1), maxUses |-> N(1)],
           Garbage }

ClaimBodies ==
    { [parsable |-> TRUE, claimId |-> c, token |-> t] :
        c \in {Str(x) : x \in ClaimIdPool},
        t \in {Str(x) : x \in TokenPool} }
    \cup { [parsable |-> TRUE, claimId |-> Str(x), token |-> Undefined] : x \in ClaimIdPool }
    \cup {Garbage}

GateInit ==
    /\ now = 0
    /\ storeCreated = FALSE
    /\ fl_claims = EmptyMap
    /\ heap = EmptyMap
    /\ initReq = [i \in 1..MaxInits |-> IdleInit]
    /\ claimReq = [r \in 1..MaxClaims |-> IdleClaim]
    /\ dead = {}

NoPure == [op |-> "none"]

ClientIdle ==
    /\ blobs = <<>>
    /\ create = IdleCreate
    /\ reveal = <<>>
    /\ pure = NoPure

Init == GateInit /\ ClientIdle

Next ==
    \/ Tick /\ UNCHANGED clientVars
    \/ \E i \in InitReqs, body \in InitBodies : InitArrive(i, body) /\ UNCHANGED clientVars
    \/ \E i \in InitReqs : InitParse(i) /\ UNCHANGED clientVars
    \/ \E i \in InitReqs : InitStore(i) /\ UNCHANGED clientVars
    \/ \E r \in ClaimReqs, body \in ClaimBodies : ClaimArrive(r, body) /\ UNCHANGED clientVars
    \/ \E r \in ClaimReqs : ClaimLookup(r) /\ UNCHANGED clientVars
    \/ \E r \in ClaimReqs : ClaimFinish(r) /\ UNCHANGED clientVars

Spec == Init /\ [][Next]_vars

----------------------------------------------------------------------------
(* One init followed by claims made one after the other *)

MaxSeqClaims == 6

SeqInitBodies ==
    { [parsable |-> TRUE, share2B64Url |-> Str(ShareSample), ttlSeconds |-> N(60),
       maxUses |-> N(n)] : n \in 1..5 }

\* the claim request a holder of init response i sends
CorrectBody(i) ==
    [parsable |-> TRUE,
     claimId |-> Str(initReq[i].resp.body.claimId),
     token |-> Str(initReq[i].resp.body.token)]

SeqClaimArrive(r) ==
    /\ initReq[1].pc = "done"
    /\ initReq[1].resp.status = 200
    /\ \A q \in ClaimReqs : claimReq[q].pc \in {"idle", "done"}
    /\ ClaimArrive(r, CorrectBody(1))

SeqInit ==
    /\ now = 0
    /\ storeCreated = FALSE
    /\ fl_claims = EmptyMap
    /\ heap = EmptyMap
    /\ initReq = [i \in 1..1 |-> IdleInit]
    /\ claimReq = [r \in 1..MaxSeqClaims |-> IdleClaim]
    /\ dead = {}
    /\ ClientIdle

SeqNext ==
    \/ Tick /\ UNCHANGED clientVars
    \/ \E body \in SeqInitBodies : InitArrive(1, body) /\ UNCHANGED clientVars
    \/ InitParse(1) /\ UNCHANGED clientVars
    \/ InitStore(1) /\ UNCHANGED clientVars
    \/ \E r \in ClaimReqs : SeqClaimArrive(r) /\ UNCHANGED clientVars
    \/ \E r \in ClaimReqs : ClaimLookup(r) /\ UNCHANGED clientVars
    \/ \E r \in ClaimReqs : ClaimFinish(r) /\ UNCHANGED clientVars

SpecSeq == SeqInit /\ [][SeqNext]_vars

----------------------------------------------------------------------------
(* One secret created on the create page and revealed on secret pages *)

MaxReveals == 2

\* 'h\u00e9' and a blank secret
SecretSamples == {<<104, 233>>, <<32>>}
KeySamples == {[i \in 1..KeyLen |-> IF i % 2 = 1 THEN 165 ELSE 90]}
IvSamples == {[i \in 1..IvLen |-> 250 + i]}
\* the draws of share1 (a draw that makes share2 equal the key or share1
\* has probability 2^-256 and is left out)
Share1Samples == {[i \in 1..KeyLen |-> 255], [i \in 1..KeyLen |-> 60 + i]}
\* the maxUses of the init request: none (create/page.tsx) or maxRecipients
MaxRecipientsInputs == {Undefined, N(1), N(2)}

FlowInit ==
    /\ now = 0
    /\ storeCreated = FALSE
    /\ fl_claims = EmptyMap
    /\ heap = EmptyMap
    /\ initReq = [i \in 1..1 |-> IdleInit]
    /\ claimReq = [r \in 1..MaxReveals |-> IdleClaim]
    /\ dead = {}
    /\ blobs = <<>>
    /\ create = IdleCreate
    /\ reveal = [p \in 1..MaxReveals |-> ClosedReveal]
    /\ pure = NoPure

OpenCreatedLink(p) ==
    /\ create.state = "success"
    /\ OpenPage(p, create.secretLink)

FlowNext ==
    \/ \E secret \in SecretSamples, m \in MaxRecipientsInputs,
          key \in KeySamples, iv \in IvSamples : HandleSubmit(secret, m, key, iv)
    \/ \E share1 \in Share1Samples : StoreSecretOk(share1)
    \/ StoreSecretFail
    \/ CreateInitResponse
    \/ \E i \in InitReqs : InitParse(i) /\ UNCHANGED clientVars
    \/ \E i \in InitReqs : InitStore(i) /\ UNCHANGED clientVars
    \/ \E p \in DOMAIN reveal : OpenCreatedLink(p)
    \/ \E p \in DOMAIN reveal : HandleReveal(p)
    \/ \E p \in DOMAIN reveal, networkOk \in BOOLEAN : RetrieveResponse(p, networkOk)
    \/ \E r \in ClaimReqs : ClaimLookup(r) /\ UNCHANGED clientVars
    \/ \E r \in ClaimReqs : ClaimFinish(r) /\ UNCHANGED clientVars
    \/ \E p \in DOMAIN reveal : ClaimResponse(p)
    \/ \E p \in DOMAIN reveal, putOk \in BOOLEAN : BurnResponse(p, putOk)

SpecFlow == FlowInit /\ [][FlowNext]_vars

----------------------------------------------------------------------------
(* splitKeyXor and xorShares on drawn keys and shares *)

ByteSample == {0, 90, 165, 255}

KeyInit ==
    /\ GateInit
    /\ blobs = <<>>
    /\ create = IdleCreate
    /\ reveal = <<>>
    /\ pure \in { [op |-> "input", key |-> k, rnd |-> s] :
                    k \in [1..KeyLen -> ByteSample], s \in [1..KeyLen -> ByteSample] }

SplitKey ==
    /\ pure.op = "input"
    /\ LET split == splitKeyXor(pure.key, pure.rnd) IN
       pure' = [op |-> "split", key |-> pure.key, rnd |-> pure.rnd,
                share1 |-> split.share1, share2 |-> split.share2]
    /\ UNCHANGED <<blobs, create, reveal>>
    /\ UNCHANGED gateVars

CombineKey ==
    /\ pure.op = "split"
    /\ pure' = [op |-> "combined", key |-> pure.key, rnd |-> pure.rnd,
                share1 |-> pure.share1, share2 |-> pure.share2,
                out |-> xorShares(pure.share1, pure.share2)]
    /\ UNCHANGED <<blobs, create, reveal>>
    /\ UNCHANGED gateVars

KeyNext == SplitKey \/ CombineKey

SpecKey == KeyInit /\ [][KeyNext]_vars

----------------------------------------------------------------------------
(* One secret created, then secret pages opened on links of any shape *)

MaxLinkPages == 1

\* a share that differs from the given one in every byte
OtherShare(share) == [i \in 1..Len(share) |-> (share[i] + 1) % 256]

\* the links opened: the created link, the legacy link of the same secret,
\* links with one part changed, and malformed references
LinkVariants ==
    LET blobId == create.blobId
        iv == create.iv
        share1 == create.share1
        claimId == initReq[create.slot].claimId
        token == initReq[create.slot].token
        base == origin \o secretPath \o blobId \o <<35>>
        k1 == arrayBufferToBase64Url(share1)
        ivB64 == arrayBufferToBase64Url(iv)
        tok == toBase64Url(btoa(token))
        dot == <<46>>
    IN  { create.secretLink,
          generateSecretUrlLegacy(blobId, create.key, iv),
          generateSecretUrlKeySplit(blobId, OtherShare(share1), iv, claimId, token),
          generateSecretUrlKeySplit(blobId, Tail(share1), iv, claimId, token),
          generateSecretUrlKeySplit(blobId, share1, iv, claimId, token \o <<120>>),
          generateSecretUrlKeySplit(BlobIdOf(9), share1, iv, claimId, token),
          \* another nonce of the same length
          generateSecretUrlKeySplit(blobId, share1, OtherShare(iv), claimId, token),
          \* an empty claimId, an empty key share, an empty token
          base \o k1 \o dot \o ivB64 \o dot \o dot \o tok,
          base \o dot \o ivB64 \o dot \o claimId \o dot \o tok,
          base \o k1 \o dot \o ivB64 \o dot \o claimId \o dot,
          \* 3 fields, 1 field, 5 fields, no fragment
          base \o k1 \o dot \o ivB64 \o dot \o claimId,
          base \o k1,
          base \o k1 \o dot \o ivB64 \o dot \o claimId \o dot \o tok \o dot \o tok,
          origin \o secretPath \o blobId,
          \* a field that is not base64url: "!" in it, or one character long
          base \o <<33>> \o k1 \o dot \o ivB64 \o dot \o claimId \o dot \o tok,
          base \o k1 \o dot \o <<65>> \o dot \o claimId \o dot \o tok }

LinkInit ==
    /\ now = 0
    /\ storeCreated = FALSE
    /\ fl_claims = EmptyMap
    /\ heap = EmptyMap
    /\ initReq = [i \in 1..1 |-> IdleInit]
    \* one request slot more than the pages need
    /\ claimReq = [r \in 1..(MaxLinkPages + 1) |-> IdleClaim]
    /\ dead = {}
    /\ blobs = <<>>
    /\ create = IdleCreate
    /\ reveal = [p \in 1..MaxLinkPages |-> ClosedReveal]
    /\ pure = NoPure

OpenAnyLink(p) ==
    /\ create.state = "success"
    /\ \E url \in LinkVariants : OpenPage(p, url)

LinkNext ==
    \/ \E key \in KeySamples, iv \in IvSamples : HandleSubmit(<<104, 233>>, N(2), key, iv)
    \/ StoreSecretOk([i \in 1..KeyLen |-> 60 + i])
    \/ CreateInitResponse
    \/ \E i \in InitReqs : InitParse(i) /\ UNCHANGED clientVars
    \/ \E i \in InitReqs : InitStore(i) /\ UNCHANGED clientVars
    \/ \E p \in DOMAIN reveal : OpenAnyLink(p)
    \/ \E p \in DOMAIN reveal : HandleReveal(p)
    \/ \E p \in DOMAIN reveal, networkOk \in BOOLEAN : RetrieveResponse(p, networkOk)
    \/ \E r \in ClaimReqs : ClaimLookup(r) /\ UNCHANGED clientVars
    \/ \E r \in ClaimReqs : ClaimFinish(r) /\ UNCHANGED clientVars
    \/ \E p \in DOMAIN reveal : ClaimResponse(p)
    \/ \E p \in DOMAIN reveal, putOk \in BOOLEAN : BurnResponse(p, putOk)

SpecLink == LinkInit /\ [][LinkNext]_vars

----------------------------------------------------------------------------
(* generateSecretUrlKeySplit and parseSecretUrl on drawn link parts *)

\* blob ids as Walrus gives them (base64url text): "b1" and "-_A"
BlobIdSamples == {BlobIdOf(1), <<45, 95, 65>>}
\* bytes of a nonce; 251 and 255 encode to "+" and "/" in base64
NonceBytes == {0, 251}

CodecInit ==
    /\ GateInit
    /\ blobs = <<>>
    /\ create = IdleCreate
    /\ reveal = <<>>
    /\ pure \in { [op |-> "parts", blobId |-> b, share1 |-> s, iv |-> n,
                   claimId |-> c, token |-> t] :
                    b \in BlobIdSamples, s \in [1..KeyLen -> ByteSample],
                    n \in [1..IvLen -> NonceBytes],
                    c \in ClaimIdPool, t \in TokenPool }

GenerateLink ==
    /\ pure.op = "parts"
    /\ pure' = [op |-> "link", blobId |-> pure.blobId, share1 |-> pure.share1,
                iv |-> pure.iv, claimId |-> pure.claimId, token |-> pure.token,
                url |-> generateSecretUrlKeySplit(pure.blobId, pure.share1, pure.iv,
                                                  pure.claimId, pure.token)]
    /\ UNCHANGED <<blobs, create, reveal>>
    /\ UNCHANGED gateVars

ParseLink ==
    /\ pure.op = "link"
    /\ pure' = [op |-> "parsed", blobId |-> pure.blobId, share1 |-> pure.share1,
                iv |-> pure.iv, claimId |-> pure.claimId, token |-> pure.token,
                url |-> pure.url, out |-> parseSecretUrl(pure.url)]
    /\ UNCHANGED <<blobs, create, reveal>>
    /\ UNCHANGED gateVars

CodecNext == GenerateLink \/ ParseLink

SpecCodec == CodecInit /\ [][CodecNext]_vars

----------------------------------------------------------------------------
(* One init request and one claim request with bodies of any shape *)

\* maxUses as sent: absent, a string, 0, -1, 1, 1.5, 3, 5, 5.5, 6
MaxUsesInputs ==
    {Undefined, Str(<<51>>), N(0), N(-1), N(1), Num(Denom + 1), N(3), N(5),
     Num(5 * Denom + 1), N(6)}
\* ttlSeconds as sent: absent, a string, 0, -1, 1/Denom, 60
TtlInputs == {Undefined, Str(<<54, 48>>), N(0), N(-1), Num(1), N(60)}

WideInitBodies ==
    { [parsable |-> TRUE, share2B64Url |-> Str(ShareSample), ttlSeconds |-> t, maxUses |-> m] :
        t \in TtlInputs, m \in MaxUsesInputs }
    \cup { [parsable |-> TRUE, share2B64Url |-> x, ttlSeconds |-> N(60), maxUses |-> N(1)] :
             x \in {Undefined, Str(<<>>), N(7)} }
    \cup {Garbage}

WideClaimBodies ==
    { [parsable |-> TRUE, claimId |-> c, token |-> t] :
        c \in {Undefined, Str(<<>>)} \cup {Str(x) : x \in ClaimIdPool},
        t \in {Undefined, Str(<<>>)} \cup {Str(x) : x \in TokenPool} }
    \cup {Garbage}

InputInit ==
    /\ now = 0
    /\ storeCreated \in BOOLEAN
    /\ fl_claims = EmptyMap
    /\ heap = EmptyMap
    /\ initReq = [i \in 1..1 |-> IdleInit]
    /\ claimReq = [r \in 1..1 |-> IdleClaim]
    /\ dead = {}
    /\ ClientIdle

InputNext ==
    \/ \E body \in WideInitBodies : InitArrive(1, body) /\ UNCHANGED clientVars
    \/ InitParse(1) /\ UNCHANGED clientVars
    \/ InitStore(1) /\ UNCHANGED clientVars
    \/ \E body \in WideClaimBodies : ClaimArrive(1, body) /\ UNCHANGED clientVars
    \/ ClaimLookup(1) /\ UNCHANGED clientVars
    \/ ClaimFinish(1) /\ UNCHANGED clientVars

SpecInput == InputInit /\ [][InputNext]_vars

----------------------------------------------------------------------------
(* encryptFile, decryptFile and isEncryptedFile on drawn files and bytes *)

\* file names: "a", "", "h\u00e9.txt" and 'q"\' with a line feed
FileNames == {<<97>>, <<>>, <<104, 233, 46, 116, 120, 116>>, <<113, 34, 92, 10>>}
\* MIME types: "" and "text/plain"
FileTypes == {<<>>, <<116, 101, 120, 116, 47, 112, 108, 97, 105, 110>>}
\* file contents: empty, one zero byte, bytes that read as a frame, binary
FileContents == {<<>>, <<0>>, <<2, 0, 0, 0, 123, 125>>, <<255, 0, 128, 34, 125>>}
\* values of Date.now()
Timestamps == {0, 1234}

\* metadata texts that are not JSON
NotJsonTexts ==
    {<<123>>,
     <<97, 98, 99>>,
     <<123, 34, 102, 105, 108, 101, 110, 97, 109, 101, 34, 58, 34, 97, 34>>,
     <<123, 34, 102, 105, 108, 101, 110, 97, 109, 101, 34, 58, 34, 97, 34, 44, 34, 116, 121, 112, 101, 34, 58, 34, 116, 34, 125, 125>>,
     <<123, 34, 102, 105, 108, 101, 110, 97, 109, 101, 34, 58, 34, 97, 34, 32, 34, 116, 121, 112, 101, 34, 58, 34, 116, 34, 125>>,
     <<123, 39, 102, 105, 108, 101, 110, 97, 109, 101, 39, 58, 39, 97, 39, 44, 39, 116, 121, 112, 101, 39, 58, 39, 116, 39, 125>>}

\* JSON metadata without a string filename and a string type
NoStringsTexts ==
    {<<110, 117, 108, 108>>,
     <<53>>,
     <<34, 120, 34>>,
     <<116, 114, 117, 101>>,
     <<123, 125>>,
     <<123, 34, 102, 105, 108, 101, 110, 97, 109, 101, 34, 58, 34, 97, 34, 125>>,
     <<123, 34, 116, 121, 112, 101, 34, 58, 34, 116, 34, 125>>,
     <<123, 34, 102, 105, 108, 101, 110, 97, 109, 101, 34, 58, 49, 44, 34, 116, 121, 112, 101, 34, 58, 34, 116, 34, 125>>,
     <<123, 34, 102, 105, 108, 101, 110, 97, 109, 101, 34, 58, 34, 97, 34, 44, 34, 116, 121, 112, 101, 34, 58, 110, 117, 108, 108, 125>>,
     <<123, 34, 102, 105, 108, 101, 110, 97, 109, 101, 34, 58, 34, 97, 34, 44, 34, 116, 121, 112, 101, 34, 58, 34, 116, 34, 44, 34, 102, 105, 108, 101, 110, 97, 109, 101, 34, 58, 55, 125>>}

\* JSON metadata objects with a string filename and a string type
FramedTexts ==
    {<<123, 34, 102, 105, 108, 101, 110, 97, 109, 101, 34, 58, 34, 97, 34, 44, 34, 116, 121, 112, 101, 34, 58, 34, 116, 34, 125>>,
     <<123, 34, 102, 105, 108, 101, 110, 97, 109, 101, 34, 58, 34, 34, 44, 34, 116, 121, 112, 101, 34, 58, 34, 34, 125>>,
     <<32, 123, 32, 34, 116, 121, 112, 101, 34, 32, 58, 32, 34, 116, 34, 32, 44, 10, 32, 34, 102, 105, 108, 101, 110, 97, 109, 101, 34, 32, 58, 32, 34, 97, 92, 117, 48, 48, 101, 57, 92, 34, 34, 32, 125, 32>>,
     <<123, 34, 102, 105, 108, 101, 110, 97, 109, 101, 34, 58, 55, 44, 34, 116, 121, 112, 101, 34, 58, 34, 116, 34, 44, 34, 115, 105, 122, 101, 34, 58, 45, 49, 44, 34, 102, 105, 108, 101, 110, 97, 109, 101, 34, 58, 34, 97, 34, 125>>}

\* a frame: the declared length, the metadata bytes and the file bytes
Frame(declared, metadataBytes, rest) == setUint32(declared) \o metadataBytes \o rest

\* byte sequences to inspect, each with the kind it was built as
ByteInputs ==
    { [kind |-> "short", data |-> d] : d \in {<<>>, <<1>>, <<27, 0>>, <<1, 0, 0>>} }
    \cup { [kind |-> "zero", data |-> Frame(0, TextEncode(t), d)] :
              t \in FramedTexts \cup {<<>>}, d \in {<<>>, <<9>>} }
    \cup { [kind |-> "long", data |-> Frame(Len(TextEncode(t)) + 1 + Len(d), TextEncode(t), d)] :
              t \in FramedTexts, d \in {<<>>, <<9>>} }
    \cup { [kind |-> "long", data |-> h \o TextEncode(t)] :
              t \in FramedTexts,
              h \in {<<255, 255, 255, 255>>, <<0, 0, 0, 27>>, <<0, 0, 0, 128>>, <<27, 1, 0, 0>>} }
    \cup { [kind |-> "notJson", data |-> Frame(Len(TextEncode(t)), TextEncode(t), d)] :
              t \in NotJsonTexts, d \in {<<>>, <<9>>} }
    \cup { [kind |-> "notJson", data |-> Frame(1, TextEncode(t), <<>>)] : t \in FramedTexts }
    \cup { [kind |-> "notJson",
            data |-> Frame(Len(TextEncode(t)) - 2, TextEncode(t), <<>>)] : t \in FramedTexts }
    \cup { [kind |-> "notJson", data |-> Frame(2, <<255, 254>>, <<>>)] }
    \cup { [kind |-> "noStrings", data |-> Frame(Len(TextEncode(t)), TextEncode(t), d)] :
              t \in NoStringsTexts, d \in {<<>>, <<9>>} }
    \cup { [kind |-> "framed", data |-> Frame(Len(TextEncode(t)), TextEncode(t), d)] :
              t \in FramedTexts, d \in {<<>>, <<9>>, <<125, 34>>} }

FileInit ==
    /\ GateInit
    /\ blobs = <<>>
    /\ create = IdleCreate
    /\ reveal = <<>>
    /\ pure \in { [op |-> "file", file |-> [name |-> n, type |-> t, data |-> d],
                   key |-> key, iv |-> iv, timestamp |-> ts] :
                    n \in FileNames, t \in FileTypes, d \in FileContents,
                    key \in KeySamples, iv \in IvSamples, ts \in Timestamps }
              \cup { [op |-> "bytes", kind |-> b.kind, data |-> b.data] : b \in ByteInputs }

\* create page: encrypted = await encryptFile(selectedFile)
EncryptFile ==
    /\ pure.op = "file"
    /\ pure' = [op |-> "encrypted", file |-> pure.file, timestamp |-> pure.timestamp,
                encrypted |-> encryptFile(pure.file, pure.key, pure.iv, pure.timestamp)]
    /\ UNCHANGED <<blobs, create, reveal>>
    /\ UNCHANGED gateVars

\* decryptFile on what encryptFile returned
DecryptFile ==
    /\ pure.op = "encrypted"
    /\ pure' = [op |-> "decrypted", file |-> pure.file, encrypted |-> pure.encrypted,
                out |-> decryptFile(pure.encrypted.ciphertext, pure.encrypted.key,
                                    pure.encrypted.iv)]
    /\ UNCHANGED <<blobs, create, reveal>>
    /\ UNCHANGED gateVars

\* secret page: crypto.subtle.decrypt, then isEncryptedFile(decryptedData)
DetectFile ==
    /\ pure.op = "encrypted"
    /\ LET decryptedData == AesGcmDecrypt(pure.encrypted.ciphertext, pure.encrypted.key,
                                          pure.encrypted.iv)
       IN  pure' = [op |-> "detected", file |-> pure.file, timestamp |-> pure.timestamp,
                    decryptedData |-> decryptedData,
                    looksLikeFile |-> isEncryptedFile(decryptedData)]
    /\ UNCHANGED <<blobs, create, reveal>>
    /\ UNCHANGED gateVars

\* isEncryptedFile on bytes of any shape
InspectBytes ==
    /\ pure.op = "bytes"
    /\ pure' = [op |-> "inspected", kind |-> pure.kind, data |-> pure.data,
                looksLikeFile |-> isEncryptedFile(pure.data)]
    /\ UNCHANGED <<blobs, create, reveal>>
    /\ UNCHANGED gateVars

FileNext ==
    \/ EncryptFile
    \/ DecryptFile
    \/ DetectFile
    \/ InspectBytes

SpecFile == FileInit /\ [][FileNext]_vars

----------------------------------------------------------------------------
(* encryptSecret, one flipped bit, then decryptSecret and the reveal *)

\* the bytes with bit b of byte i flipped
FlipBit(bytes, i, b) == [bytes EXCEPT ![i] = BitXor(@, 2 ^ b, 8)]

\* the ciphertext with its tag, bit b flipped: no longer a cell that encrypt
\* produced
FlipCipherBit(ciphertext, b) ==
    <<[key |-> ciphertext[1].key, iv |-> ciphertext[1].iv,
       data |-> ciphertext[1].data, flipped |-> b]>>

TamperInit ==
    /\ GateInit
    /\ blobs = <<>>
    /\ create = IdleCreate
    /\ reveal = <<>>
    /\ pure \in { [op |-> "plain", secret |-> x, key |-> key, iv |-> iv] :
                    x \in SecretSamples \cup {<<>>}, key \in KeySamples, iv \in IvSamples }

\* create page: encryptSecret(secret)
EncryptSecret ==
    /\ pure.op = "plain"
    /\ LET encrypted == encryptSecret(pure.secret, pure.key, pure.iv) IN
       pure' = [op |-> "encrypted", secret |-> pure.secret, target |-> "none",
                key |-> encrypted.key, iv |-> encrypted.iv,
                ciphertext |-> encrypted.ciphertext]
    /\ UNCHANGED <<blobs, create, reveal>>
    /\ UNCHANGED gateVars

\* one bit of the key, of the nonce or of the ciphertext changes on the way
TamperKey ==
    /\ pure.op = "encrypted"
    /\ \E i \in 1..KeyLen, b \in 0..7 :
          pure' = [pure EXCEPT !.op = "tampered", !.target = "key",
                               !.key = FlipBit(@, i, b)]
    /\ UNCHANGED <<blobs, create, reveal>>
    /\ UNCHANGED gateVars

TamperNonce ==
    /\ pure.op = "encrypted"
    /\ \E i \in 1..IvLen, b \in 0..7 :
          pure' = [pure EXCEPT !.op = "tampered", !.target = "nonce",
                               !.iv = FlipBit(@, i, b)]
    /\ UNCHANGED <<blobs, create, reveal>>
    /\ UNCHANGED gateVars

TamperCiphertext ==
    /\ pure.op = "encrypted"
    /\ \E b \in 0..7 :
          pure' = [pure EXCEPT !.op = "tampered", !.target = "ciphertext",
                               !.ciphertext = FlipCipherBit(@, b)]
    /\ UNCHANGED <<blobs, create, reveal>>
    /\ UNCHANGED gateVars

\* decryptSecret on the values as they arrived
DecryptSecret ==
    /\ pure.op \in {"encrypted", "tampered"}
    /\ pure' = [op |-> "decrypted", secret |-> pure.secret, target |-> pure.target,
                out |-> decryptSecret(pure.ciphertext, pure.key, pure.iv)]
    /\ UNCHANGED <<blobs, create, reveal>>
    /\ UNCHANGED gateVars

\* handleReveal from decryptSecret on, with the values as they arrived, up
\* to the end of the handler
RevealDecrypt ==
    /\ pure.op \in {"encrypted", "tampered"}
    /\ LET rec == [ClosedReveal EXCEPT
                      !.state = "decrypting", !.pc = "decrypt",
                      !.parsed = [ok |-> TRUE, hasKey |-> TRUE, blobId |-> BlobIdOf(1),
                                  key |-> pure.key, iv |-> pure.iv]]
           step == DecryptStep(rec, pure.ciphertext, pure.key)
           page == IF step.pc = "burnSecret"
                   THEN [step EXCEPT !.secret = step.decryptedSecret,
                                     !.state = "success", !.pc = "done"]
                   ELSE step
       IN  pure' = [op |-> "revealed", secret |-> pure.secret, target |-> pure.target,
                    page |-> page]
    /\ UNCHANGED <<blobs, create, reveal>>
    /\ UNCHANGED gateVars

TamperNext ==
    \/ EncryptSecret
    \/ TamperKey
    \/ TamperNonce
    \/ TamperCiphertext
    \/ DecryptSecret
    \/ RevealDecrypt

SpecTamper == TamperInit /\ [][TamperNext]_vars

----------------------------------------------------------------------------
(* Init requests whose randomId() may return a claimId drawn before *)

CollideInit ==
    /\ now = 0
    /\ storeCreated = FALSE
    /\ fl_claims = EmptyMap
    /\ heap = EmptyMap
    /\ initReq = [i \in 1..(MaxInits + 1) |-> IdleInit]
    /\ claimReq = [r \in 1..1 |-> IdleClaim]
    /\ dead = {}
    /\ ClientIdle

CollideNext ==
    \/ \E i \in InitReqs, m \in {Undefined, N(2)} :
          InitArrive(i, [parsable |-> TRUE, share2B64Url |-> Str(ShareSample),
                         ttlSeconds |-> N(1), maxUses |-> m])
          /\ UNCHANGED clientVars
    \/ \E i \in InitReqs : InitDraw(i, ClaimIdPool) /\ UNCHANGED clientVars
    \/ \E i \in InitReqs : InitStore(i) /\ UNCHANGED clientVars
    \/ \E r \in ClaimReqs, c \in ClaimIdPool, t \in TokenPool :
          ClaimArrive(r, [parsable |-> TRUE, claimId |-> Str(c), token |-> Str(t)])
          /\ UNCHANGED clientVars
    \/ \E r \in ClaimReqs : ClaimLookup(r) /\ UNCHANGED clientVars
    \/ \E r \in ClaimReqs : ClaimFinish(r) /\ UNCHANGED clientVars

SpecCollide == CollideInit /\ [][CollideNext]_vars

----------------------------------------------------------------------------
(* One secret created, then pages opened on its split link and on the     *)
(* legacy link of the same blob, key and nonce                            *)

OpenLegacyLink(p) ==
    /\ create.state = "success"
    /\ OpenPage(p, generateSecretUrlLegacy(create.blobId, create.key, create.iv))

LegacyNext ==
    \/ \E key \in KeySamples, iv \in IvSamples : HandleSubmit(<<104, 233>>, N(1), key, iv)
    \/ StoreSecretOk([i \in 1..KeyLen |-> 60 + i])
    \/ CreateInitResponse
    \/ \E i \in InitReqs : InitParse(i) /\ UNCHANGED clientVars
    \/ \E i \in InitReqs : InitStore(i) /\ UNCHANGED clientVars
    \/ \E p \in DOMAIN reveal : OpenCreatedLink(p)
    \/ \E p \in DOMAIN reveal : OpenLegacyLink(p)
    \/ \E p \in DOMAIN reveal : HandleReveal(p)
    \/ \E p \in DOMAIN reveal, networkOk \in BOOLEAN : RetrieveResponse(p, networkOk)
    \/ \E r \in ClaimReqs : ClaimLookup(r) /\ UNCHANGED clientVars
    \/ \E r \in ClaimReqs : ClaimFinish(r) /\ UNCHANGED clientVars
    \/ \E p \in DOMAIN reveal : ClaimResponse(p)
    \/ \E p \in DOMAIN reveal, putOk \in BOOLEAN : BurnResponse(p, putOk)

SpecLegacy == FlowInit /\ [][LegacyNext]_vars

----------------------------------------------------------------------------
(* Properties of the claim gate *)

Done(r) == claimReq[r].pc = "done"
Status(r) == claimReq[r].resp.status
GotShare(r) == Done(r) /\ Status(r) = 200
HasShare(resp) == "share2B64Url" \in DOMAIN resp.body
WellFormed(body) == body.parsable /\ ~Falsy(body.claimId) /\ ~Falsy(body.token)
\* the init requests that created a record under claimId c
CreatorOf(c) == {i \in InitReqs : initReq[i].pc = "done" /\ initReq[i].resp.status = 200
                                  /\ initReq[i].claimId = c}
Concurrent(r, q) == r \in claimReq[q].overlap \/ q \in claimReq[r].overlap

\* C1: for every claim record and every interleaving of claim requests, the
\* number of requests answered with the held share never exceeds the
\* record's maxUses.
C1_AtMostMaxUses ==
    \A o \in DOMAIN heap :
        Cardinality({r \in ClaimReqs : GotShare(r) /\ claimReq[r].entry = o}) * Denom
            <= heap[o].maxUses

\* C2: of two concurrent correct-token claim requests for an unexpired record
\* created with maxUses = 1, exactly one returns the share and the other
\* returns 409 (exhausted).
C2_OneWinnerOtherExhausted ==
    \A r, q \in ClaimReqs :
        \A i \in InitReqs :
            ( /\ r # q /\ Done(r) /\ Done(q) /\ Concurrent(r, q)
              /\ claimReq[r].live /\ claimReq[q].live
              /\ i \in CreatorOf(claimReq[r].body.claimId.v)
              /\ claimReq[r].body = CorrectBody(i)
              /\ claimReq[q].body = CorrectBody(i)
              /\ heap[i].maxUses = 1 * Denom
              /\ now <= heap[i].expiresAt )
            => \/ (GotShare(r) /\ Status(q) = 409)
               \/ (GotShare(q) /\ Status(r) = 409)

\* C3: after init with maxUses = n (n in 1..5) and an unexpired ttl, the first n
\* sequential correct-token claims succeed and report usesRemaining n-1, ..., 0
\* in that order, and claim n+1 fails with 409 (exhausted).
C3_SequentialCounts ==
    \A r \in ClaimReqs :
        Done(r) =>
            LET n == initReq[1].validMaxUses \div Denom IN
            /\ r <= n => /\ Status(r) = 200
                         /\ claimReq[r].resp.body.usesRemaining = (n - r) * Denom
            /\ r = n + 1 => Status(r) = 409

\* C4: a claim with a stored, unexpired claimId and a token whose hash differs
\* from the stored tokenHash passes the lookup and is answered 401 without the
\* share, and the step that answers it leaves the claim map and every record
\* (so its usesRemaining) unchanged.
C4_WrongTokenUnauthorized ==
    [][ \A r \in ClaimReqs :
          /\ ( /\ claimReq[r].pc = "json" /\ claimReq'[r].pc # "json"
               /\ WellFormed(claimReq[r].body)
               /\ MapHas(fl_claims, claimReq[r].body.claimId.v)
               /\ now <= heap[fl_claims[claimReq[r].body.claimId.v]].expiresAt )
             => claimReq'[r].pc = "hash"
          /\ ( /\ claimReq[r].pc = "hash" /\ claimReq'[r].pc = "done"
               /\ sha256Base64Url(claimReq[r].body.token.v)
                     # heap[claimReq[r].entry].tokenHash )
             => /\ claimReq'[r].resp.status = 401
                /\ ~HasShare(claimReq'[r].resp)
                /\ fl_claims' = fl_claims
                /\ heap' = heap
      ]_vars

C4_Witness ==
    \E r, q \in ClaimReqs :
        /\ r # q /\ Done(r) /\ Done(q)
        /\ Status(r) = 401 /\ Status(q) = 401
        /\ claimReq[r].entry = claimReq[q].entry
        /\ \E c \in DOMAIN fl_claims :
              /\ fl_claims[c] = claimReq[r].entry
              /\ heap[fl_claims[c]].usesRemaining = heap[fl_claims[c]].maxUses

\* C5: a claim (carrying a claimId and a token) that finds a stored record
\* whose expiresAt has passed is answered 410 without the share and deletes
\* the record, whatever the token; and no claim that started after expiresAt
\* is answered with the share.
C5_ExpiredNeverReleases ==
    [][ /\ \A r \in ClaimReqs :
             ( /\ claimReq[r].pc = "json" /\ claimReq'[r].pc # "json"
               /\ WellFormed(claimReq[r].body)
               /\ MapHas(fl_claims, claimReq[r].body.claimId.v)
               /\ now > heap[fl_claims[claimReq[r].body.claimId.v]].expiresAt )
             => /\ claimReq'[r].pc = "done"
                /\ claimReq'[r].resp.status = 410
                /\ ~HasShare(claimReq'[r].resp)
                /\ ~MapHas(fl_claims', claimReq[r].body.claimId.v)
        /\ \A r \in ClaimReqs :
             (claimReq'[r].pc = "done" /\ claimReq'[r].resp.status = 200)
             => claimReq'[r].startedAt <= heap'[claimReq'[r].entry].expiresAt
      ]_vars

C5_Witness ==
    \E r \in ClaimReqs, i \in InitReqs :
        /\ Done(r) /\ Status(r) = 410
        /\ i \in CreatorOf(claimReq[r].body.claimId.v)
        /\ claimReq[r].body.token.v # initReq[i].token
        /\ heap[i].usesRemaining > 0
        /\ claimReq[r].startedAt > heap[i].expiresAt
        /\ ~MapHas(fl_claims, initReq[i].claimId)

\* C6: once the record of a claimId has been deleted, no claim request for
\* that claimId is answered with the share afterwards, including a request
\* that was in flight when the record was deleted.
C6_NoShareAfterDelete ==
    [][ \A r \in ClaimReqs :
          (~GotShare(r) /\ claimReq'[r].pc = "done" /\ claimReq'[r].resp.status = 200)
          => claimReq[r].body.claimId.v \notin dead
      ]_vars

\* C10: the raw token appears only in the response of the init call that drew
\* it: every stored record holds the SHA-256 of its token and no field equal to
\* a raw token, and a claim response carries only the share and the two counts,
\* or an error text.
C10_TokenNeverStoredNorReturned ==
    /\ \A o \in DOMAIN heap :
          /\ heap[o].tokenHash = sha256Base64Url(initReq[o].token)
          /\ DOMAIN heap[o] = {"share2", "tokenHash", "expiresAt", "maxUses", "usesRemaining"}
          /\ \A i \in InitReqs :
                initReq[i].pc \in {"hash", "done"}
                => /\ heap[o].tokenHash # initReq[i].token
                   /\ heap[o].share2 # initReq[i].token
    /\ \A i \in InitReqs :
          (initReq[i].pc = "done" /\ initReq[i].resp.status = 200)
          => initReq[i].resp.body.token = initReq[i].token
    /\ \A i \in InitReqs :
          (initReq[i].pc = "done" /\ initReq[i].resp.status # 200)
          => DOMAIN initReq[i].resp.body = {"error"}
    /\ \A r \in ClaimReqs :
          Done(r) =>
            IF Status(r) = 200
            THEN /\ DOMAIN claimReq[r].resp.body = {"share2B64Url", "usesRemaining", "maxUses"}
                 /\ \A i \in InitReqs :
                       initReq[i].pc \in {"hash", "done"}
                       => /\ claimReq[r].resp.body.share2B64Url # initReq[i].token
                          /\ claimReq[r].resp.body.share2B64Url
                                # sha256Base64Url(initReq[i].token)
            ELSE DOMAIN claimReq[r].resp.body = {"error"}

C10_Witness ==
    \E r, q \in ClaimReqs, o \in DOMAIN heap :
        /\ GotShare(r) /\ Done(q) /\ Status(q) = 401
        /\ claimReq[r].entry = o /\ claimReq[q].entry = o
        /\ initReq[o].pc = "done"

----------------------------------------------------------------------------
(* Properties of the flows and of the key splitter *)

\* C7: end to end, a reveal of the created link whose claim was answered with
\* share2 recombines exactly the original key from the share1 parsed from the
\* link and decrypts exactly the original plaintext; and the first claim
\* answered for the link is answered with the share.
C7_EndToEnd ==
    /\ \A p \in DOMAIN reveal :
          ( /\ reveal[p].slot # 0
            /\ reveal[p].pc \in {"burnSecret", "done"}
            /\ GotShare(reveal[p].slot) )
          => /\ reveal[p].parsed.keyShare1 = create.share1
             /\ base64UrlToArrayBuffer(claimReq[reveal[p].slot].resp.body.share2B64Url)
                   = create.share2
             /\ reveal[p].fullKey = create.key
             /\ reveal[p].decryptedSecret = create.secret
             /\ reveal[p].state \in {"decrypting", "success"}
             /\ reveal[p].state = "success" => reveal[p].secret = create.secret
    /\ \A r \in ClaimReqs :
          (Done(r) /\ \A q \in ClaimReqs \ {r} : ~Done(q)) => Status(r) = 200

C7_Witness ==
    \E p \in DOMAIN reveal :
        /\ reveal[p].state = "success"
        /\ reveal[p].secret = <<104, 233>>
        /\ GotShare(reveal[p].slot)
        /\ blobs[1] = create.iv \o AesGcmEncrypt(create.key, create.iv, <<104, 195, 169>>)

\* bit j of a byte
Bit(x, j) == (x \div (2 ^ j)) % 2

\* C8: for every key K and every share1 drawn by splitKeyXor, both shares have
\* the length of K, share2 is K XOR share1 byte by byte, and
\* xorShares(share1, share2) is K.
C8_SplitCombine ==
    /\ pure.op \in {"split", "combined"} =>
          /\ Len(pure.share1) = Len(pure.key)
          /\ Len(pure.share2) = Len(pure.key)
          /\ pure.share1 = pure.rnd
          /\ \A i \in 1..Len(pure.key) :
                /\ pure.share2[i] \in 0..255
                /\ \A j \in 0..7 :
                      Bit(pure.share2[i], j)
                         = (IF Bit(pure.key[i], j) = Bit(pure.share1[i], j) THEN 0 ELSE 1)
    /\ pure.op = "combined" => pure.out = pure.key

C8_Witness ==
    /\ pure.op = "combined"
    /\ pure.out = pure.key
    /\ pure.share2 # pure.key
    /\ pure.share1 # pure.share2
    /\ \E i \in 1..KeyLen : pure.key[i] = 165 /\ pure.share1[i] = 90

\* the values the gate must never be sent: the key, share1 and the plaintext,
\* as bytes and in their text encodings
Withheld ==
    LET raw == {create.key, create.share1, create.secret, TextEncode(create.secret)}
    IN  raw \cup {arrayBufferToBase64(x) : x \in raw}
            \cup {arrayBufferToBase64Url(x) : x \in raw}

\* C9: the requests of the create and reveal flows to the gate carry only
\* share2, ttlSeconds and maxUses (init) and claimId and token (claim), never
\* the whole key, share1 or the plaintext; and share2 is in no field of the
\* shareable link.
C9_GateSeesOnlyShare2 ==
    LET withheld == Withheld
        sent == arrayBufferToBase64Url(create.share2)
    IN
    /\ \A i \in InitReqs :
          initReq[i].pc # "idle" =>
            LET body == initReq[i].body IN
            /\ DOMAIN body = {"parsable", "share2B64Url", "ttlSeconds", "maxUses"}
            /\ body.share2B64Url = Str(sent)
            /\ body.share2B64Url.v \notin withheld
            /\ base64UrlToArrayBuffer(body.share2B64Url.v) \notin withheld
            /\ body.ttlSeconds.t = "number"
            /\ body.maxUses.t \in {"number", "undefined"}
    /\ \A r \in ClaimReqs :
          claimReq[r].pc # "idle" =>
            LET body == claimReq[r].body IN
            /\ DOMAIN body = {"parsable", "claimId", "token"}
            /\ body.claimId = Str(initReq[create.slot].claimId)
            /\ body.token = Str(initReq[create.slot].token)
            /\ body.claimId.v \notin withheld
            /\ body.token.v \notin withheld
    /\ create.secretLink # <<>> =>
          LET parts == Split(Split(create.secretLink, 35)[2], 46) IN
          /\ ~Includes(create.secretLink, sent)
          /\ \A k \in 1..Len(parts) :
                parts[k] \notin {sent, arrayBufferToBase64(create.share2), create.share2}

C9_Witness ==
    /\ create.state = "success"
    /\ \E p \in DOMAIN reveal :
          /\ reveal[p].state = "success"
          /\ claimReq[reveal[p].slot].body.token.v = initReq[create.slot].token
    /\ initReq[create.slot].body.share2B64Url.v = arrayBufferToBase64Url(create.share2)

----------------------------------------------------------------------------
(* Properties of the reveal flow *)

\* C11: in every reveal of a split link the claim request precedes the blob
\* retrieval: while the retrieve request of a reveal is in flight, its claim
\* has been answered and the key has been recombined.
C11_ClaimBeforeRetrieval ==
    \A p \in DOMAIN reveal :
        (reveal[p].pc = "retrieveSecret" /\ ~reveal[p].parsed.hasKey)
        => /\ reveal[p].slot # 0
           /\ Done(reveal[p].slot)
           /\ reveal[p].fullKey # <<>>

\* the position of handleReveal, in the order of its awaits
PcRank(pc) ==
    CASE pc = "idle" -> 0
      [] pc = "retrieveSecret" -> 1
      [] pc = "claimFetch" -> 2
      [] pc = "burnSecret" -> 3
      [] pc = "done" -> 4

\* C12: a reveal never retries: one invocation of handleReveal passes each of
\* its awaits at most once (so it sends at most one retrieve and at most one
\* claim request), every claim request is the single one of the reveal that
\* sends it, a failure of retrieval, claim, recombination or decryption ends
\* in the terminal state 'error' or 'burned', a finished reveal does nothing
\* more, and no step of a page changes the claim store, so that a consumed
\* use stays consumed.
C12_NoRetry ==
    [][ /\ \A p \in DOMAIN reveal :
             /\ PcRank(reveal'[p].pc) >= PcRank(reveal[p].pc)
             /\ (reveal[p].pc # "idle" /\ reveal'[p].pc # reveal[p].pc)
                  => PcRank(reveal'[p].pc) > PcRank(reveal[p].pc)
             /\ reveal[p].pc = "done" => reveal'[p] = reveal[p]
             /\ reveal[p].slot # 0 => reveal'[p].slot = reveal[p].slot
             /\ (reveal'[p].pc = "done" /\ reveal[p].pc \in {"retrieveSecret", "claimFetch"})
                  => /\ reveal'[p].state \in {"error", "burned"}
                     /\ reveal'[p].secret = <<>>
             /\ reveal'[p] # reveal[p] =>
                  /\ fl_claims' = fl_claims
                  /\ heap' = heap
        /\ \A r \in ClaimReqs :
             (claimReq[r].pc = "idle" /\ claimReq'[r].pc # "idle")
             => \E p \in DOMAIN reveal :
                   /\ reveal[p].pc = "retrieveSecret" /\ reveal'[p].pc = "claimFetch"
                   /\ reveal[p].slot = 0 /\ reveal'[p].slot = r
                   /\ \A q \in DOMAIN reveal \ {p} : reveal'[q].slot # r
        /\ \A o \in DOMAIN heap :
             o \in DOMAIN heap' /\ heap'[o].usesRemaining <= heap[o].usesRemaining
      ]_vars

\* a reveal whose claim consumed a use and whose decryption then failed
C12_Witness ==
    \E p \in DOMAIN reveal :
        /\ reveal[p].pc = "done"
        /\ reveal[p].state = "error"
        /\ reveal[p].slot # 0
        /\ GotShare(reveal[p].slot)
        /\ heap[claimReq[reveal[p].slot].entry].usesRemaining
              < heap[claimReq[reveal[p].slot].entry].maxUses
        /\ \A r \in ClaimReqs \ {reveal[p].slot} : claimReq[r].pc = "idle"

\* the marker is among the stored blobs
MarkerStored == \E k \in 1..Len(blobs) :
                    Len(blobs[k]) = Len(BURNED_MARKER) /\ blobs[k] = TextEncode(BURNED_MARKER)

\* C13: a failure of burnSecret is swallowed: whatever the outcome of the
\* burn request, the step that follows it puts the reveal in 'success' with
\* the decrypted secret and no error, and a reveal of the created link whose
\* claim was answered with the share never ends otherwise.
C13_BurnFailureSwallowed ==
    [][ \A p \in DOMAIN reveal :
          /\ (reveal[p].pc = "burnSecret" /\ reveal'[p] # reveal[p])
               => /\ reveal'[p].pc = "done"
                  /\ reveal'[p].state = "success"
                  /\ reveal'[p].secret = reveal[p].decryptedSecret
                  /\ reveal'[p].secret = create.secret
                  /\ reveal'[p].error = <<>>
          /\ (reveal'[p].pc = "done" /\ reveal'[p].slot # 0
                /\ claimReq'[reveal'[p].slot].pc = "done"
                /\ claimReq'[reveal'[p].slot].resp.status = 200)
               => reveal'[p].state = "success"
      ]_vars

\* a reveal that succeeded although its burn request failed
C13_Witness ==
    /\ ~MarkerStored
    /\ \E p \in DOMAIN reveal :
          /\ reveal[p].state = "success"
          /\ reveal[p].secret = create.secret
          /\ GotShare(reveal[p].slot)

\* C14: invalidation is fire-and-forget: once the decryption has succeeded
\* the page shows 'success' with the secret without waiting for the answer of
\* the burn request, so while that request is in flight the page is already
\* in 'success'.
C14_SuccessWithoutWaitingForBurn ==
    \A p \in DOMAIN reveal :
        reveal[p].pc = "burnSecret"
        => /\ reveal[p].state = "success"
           /\ reveal[p].secret = reveal[p].decryptedSecret

\* a character of base64 or base64url text: A-Z a-z 0-9 + / - _ =
IsCodecChar(c) ==
    c \in (48..57) \cup (65..90) \cup (97..122) \cup {43, 47, 45, 95, 61}

\* the fields of the fragment of a link (none when there is no fragment)
FragmentFields(url) ==
    LET pieces == Split(url, 35)
    IN  IF Len(pieces) < 2 THEN <<>> ELSE Split(pieces[2], 46)

\* a reference as the specification admits it: 2 or 4 dot-separated fields,
\* none of them empty, the encoded ones made of base64 characters and of a
\* length base64 can have
WellFormedReference(url) ==
    LET fields == FragmentFields(url)
        encoded == IF Len(fields) = 4 THEN {1, 2, 4} ELSE {1, 2}
    IN  /\ Len(fields) \in {2, 4}
        /\ \A k \in 1..Len(fields) : fields[k] # <<>>
        /\ \A k \in encoded :
              /\ \A i \in 1..Len(fields[k]) : IsCodecChar(fields[k][i])
              /\ Len(stripPad(fields[k])) % 4 # 1

\* C15: every malformed reference is rejected by parseSecretUrl, a page
\* whose reference was rejected is in 'error' and has sent no request, and so
\* no page works on a reference with an empty claimId, token, key share or
\* nonce.
C15_MalformedReferenceRejected ==
    /\ create.state = "success" =>
          \A url \in LinkVariants : ~WellFormedReference(url) => ~parseSecretUrl(url).ok
    /\ \A p \in DOMAIN reveal :
          (reveal[p].state # "closed" /\ ~reveal[p].parsed.ok)
          => /\ reveal[p].state = "error"
             /\ reveal[p].pc = "done"
             /\ reveal[p].slot = 0
             /\ reveal[p].ciphertext = <<>>
    /\ \A p \in DOMAIN reveal :
          (reveal[p].parsed.ok /\ ~reveal[p].parsed.hasKey)
          => /\ reveal[p].parsed.claimId # <<>>
             /\ reveal[p].parsed.token # <<>>
             /\ reveal[p].parsed.keyShare1 # <<>>
             /\ reveal[p].parsed.iv # <<>>

\* C16: for every blobId, share1, nonce, claimId and token,
\* parseSecretUrl(generateSecretUrlKeySplit(...)) returns the same five
\* values and takes the 4-field branch, never the legacy one.
C16_CodecRoundTrip ==
    /\ pure.op \in {"link", "parsed"} => Len(FragmentFields(pure.url)) = 4
    /\ pure.op = "parsed" =>
          /\ pure.out.ok
          /\ ~pure.out.hasKey
          /\ pure.out.blobId = pure.blobId
          /\ pure.out.keyShare1 = pure.share1
          /\ pure.out.iv = pure.iv
          /\ pure.out.claimId = pure.claimId
          /\ pure.out.token = pure.token

\* a parsed link whose share and nonce fields hold "_" and "-"
C16_Witness ==
    /\ pure.op = "parsed"
    /\ pure.out.ok
    /\ pure.out.token = pure.token
    /\ \E i \in 1..Len(pure.url) : pure.url[i] = 95
    /\ \E i \in 1..Len(pure.url) : pure.url[i] = 45
    /\ \E i \in 1..KeyLen : pure.share1[i] = 255
    /\ \E i \in 1..IvLen : pure.iv[i] = 251


----------------------------------------------------------------------------
(* Properties of the request bodies *)

\* the maxUses the description assigns to a request: the requested value
\* when it is an integer from 1 to 5, and 1 otherwise
DescribedMaxUses(m) ==
    IF m.t = "number" /\ m.v % Denom = 0 /\ m.v \in Denom..(5 * Denom)
    THEN m.v ELSE Denom

\* the lifetime in milliseconds the description assigns to a request
DescribedLifetimeMs(t) ==
    IF t.t = "number" /\ t.v > 0 THEN (t.v * MsPerSecond) \div Denom
    ELSE 3600 * MsPerSecond

\* C17: a record created by an init request holds an integer maxUses from 1
\* to 5, the requested value when that is such an integer and 1 otherwise,
\* it starts with usesRemaining equal to maxUses, and a ttlSeconds that is
\* not a positive number gives it a lifetime of 3600 seconds.
C17_StoredMaxUsesIsIntegerInRange ==
    \A i \in InitReqs :
        (initReq[i].pc = "done" /\ initReq[i].resp.status = 200)
        => /\ heap[i].maxUses % Denom = 0
           /\ heap[i].maxUses \in Denom..(5 * Denom)
           /\ heap[i].maxUses = DescribedMaxUses(initReq[i].body.maxUses)
           /\ heap[i].expiresAt = DescribedLifetimeMs(initReq[i].body.ttlSeconds)
           /\ (\A r \in DOMAIN claimReq : claimReq[r].pc = "idle")
                => heap[i].usesRemaining = heap[i].maxUses


\* an init body that is not parsable JSON or lacks a string share2B64Url
MalformedInit(body) ==
    \/ ~body.parsable
    \/ body.share2B64Url.t # "string"
    \/ Falsy(body.share2B64Url)

\* a claim body that is not parsable JSON or lacks claimId or token
MalformedClaim(body) ==
    \/ ~body.parsable
    \/ Falsy(body.claimId)
    \/ Falsy(body.token)

\* C18: every malformed request is answered with status 400 and leaves the
\* claim store as it was (a malformed init creates no record, a malformed
\* claim neither removes nor decrements one), and status 500 is never the
\* answer to a malformed request.
C18_MalformedAnswered400 ==
    /\ \A i \in InitReqs :
        (initReq[i].pc = "done" /\ MalformedInit(initReq[i].body))
        => /\ initReq[i].resp.status = 400
           /\ fl_claims = EmptyMap
           /\ heap = EmptyMap
    /\ \A r \in DOMAIN claimReq :
        (Done(r) /\ MalformedClaim(claimReq[r].body))
        => /\ Status(r) = 400
           /\ \A i \in InitReqs :
                (initReq[i].pc = "done" /\ initReq[i].resp.status = 200)
                => /\ MapHas(fl_claims, initReq[i].claimId)
                   /\ heap[i].usesRemaining = heap[i].maxUses


----------------------------------------------------------------------------
(* Properties of the exhausted link *)

\* page p claimed after the record of its link had been removed because its
\* uses were consumed, and has finished
RevealedExhausted(p) ==
    /\ reveal[p].pc = "done"
    /\ reveal[p].slot # 0
    /\ Status(reveal[p].slot) # 200
    /\ reveal[p].parsed.claimId \in dead
    /\ \E q \in DOMAIN reveal \ {p} : reveal[q].slot # 0 /\ GotShare(reveal[q].slot)

\* C19: a reveal of a split link whose uses were all consumed by earlier
\* reveals ends in the 'burned' view state, in both versions of the page,
\* and not in 'error' or 'success'.
C19_ExhaustedLinkShowsBurned ==
    \A p \in DOMAIN reveal :
        RevealedExhausted(p)
        => /\ reveal[p].state = "burned"
           /\ CatchRevealFiles(reveal[p],
                 claimErrorMessage(claimReq[reveal[p].slot].resp.body.error)).state
              = "burned"


----------------------------------------------------------------------------
(* Properties of the file functions *)

\* C20: decryptFile applied to the output of encryptFile returns the bytes,
\* filename, MIME type and size of the file, for every file including an
\* empty one; isEncryptedFile is true on the framed plaintext
\* u32_LE(metadataLength) || metadataJSON || rawBytes, and false on an input
\* shorter than 4 bytes, on a declared metadata length of 0 or larger than
\* the remaining bytes, and on metadata that is not JSON with a string
\* filename and a string type.
C20_FileRoundTrip ==
    /\ pure.op = "decrypted"
       => /\ ~pure.out.thrown
          /\ pure.out.data = pure.file.data
          /\ pure.out.filename = Str(pure.file.name)
          /\ pure.out.type = Str(pure.file.type)
          /\ pure.out.size = [t |-> "number", v |-> Len(pure.file.data)]
          /\ pure.encrypted.size = Len(pure.file.data)
    /\ pure.op = "detected"
       => /\ pure.decryptedData = combinedData(pure.file, pure.timestamp)
          /\ SubSeq(pure.decryptedData, 1, 4)
             = setUint32(Len(pure.decryptedData) - 4 - Len(pure.file.data))
          /\ pure.looksLikeFile
    /\ pure.op = "inspected"
       => (pure.looksLikeFile <=> pure.kind = "framed")

\* a file whose name needs escaping and more bytes than characters has made
\* the round trip, an empty file has, and bytes of every kind were inspected
C20_Witness ==
    /\ pure.op = "decrypted"
    /\ pure.file.name = <<104, 233, 46, 116, 120, 116>>
    /\ pure.file.data = <<2, 0, 0, 0, 123, 125>>
    /\ ~pure.out.thrown


----------------------------------------------------------------------------
(* Properties of tampering, burning and the store *)

C25_ExpiredAtExpiresAt ==
    [][ \A r \in ClaimReqs :
          LET body == claimReq[r].body IN
          ( /\ claimReq[r].pc = "json" /\ claimReq'[r].pc # "json"
            /\ WellFormed(body) /\ storeCreated
            /\ MapHas(fl_claims, body.claimId.v)
            /\ heap[fl_claims[body.claimId.v]].usesRemaining > 0 )
          => IF now >= heap[fl_claims[body.claimId.v]].expiresAt
             THEN /\ claimReq'[r].pc = "done"
                  /\ claimReq'[r].resp.status = 410
                  /\ ~MapHas(fl_claims', body.claimId.v)
             ELSE /\ claimReq'[r].pc = "hash"
                  /\ fl_claims' = fl_claims
      ]_vars


\* C26: every init call creates its record under a claimId that is not the
\* key of a record in the map and was not the key of a record deleted
\* earlier, and leaves the records under the other keys in place.
C26_FreshClaimId ==
    [][ \A i \in InitReqs :
          (initReq[i].pc = "hash" /\ initReq'[i].pc = "done")
          => /\ ~MapHas(fl_claims, initReq[i].claimId)
             /\ initReq[i].claimId \notin dead
             /\ \A c \in DOMAIN fl_claims :
                   MapHas(fl_claims', c) /\ fl_claims'[c] = fl_claims[c]
      ]_vars


\* the record under claimId c fares the same before and after the step
SameRecord(c) ==
    /\ MapHas(fl_claims', c) <=> MapHas(fl_claims, c)
    /\ MapHas(fl_claims, c) => heap'[fl_claims'[c]] = heap[fl_claims[c]]

\* C27: an init call adds exactly one record and leaves every other record
\* unchanged; a claim call changes at most the record of its own claimId,
\* only by lowering usesRemaining by exactly 1 or by deleting it, never its
\* share2, tokenHash, expiresAt or maxUses; a claim call answered 400, 401,
\* 404 or 409 leaves the whole map unchanged.
C27_Frame ==
    [][ /\ \A i \in InitReqs :
             (initReq'[i] # initReq[i])
             => /\ \A c \in DOMAIN fl_claims : SameRecord(c)
                /\ (initReq[i].pc = "hash" /\ initReq'[i].pc = "done")
                   => /\ DOMAIN fl_claims' = DOMAIN fl_claims \cup {initReq[i].claimId}
                      /\ initReq[i].claimId \notin DOMAIN fl_claims
                /\ ~(initReq[i].pc = "hash" /\ initReq'[i].pc = "done")
                   => DOMAIN fl_claims' = DOMAIN fl_claims
        /\ \A r \in ClaimReqs :
             (claimReq'[r] # claimReq[r])
             => /\ DOMAIN fl_claims' \subseteq DOMAIN fl_claims
                /\ \A c \in DOMAIN fl_claims :
                      \/ SameRecord(c)
                      \/ /\ WellFormed(claimReq[r].body)
                         /\ c = claimReq[r].body.claimId.v
                         /\ \/ ~MapHas(fl_claims', c)
                            \/ heap'[fl_claims'[c]] =
                                 [heap[fl_claims[c]] EXCEPT !.usesRemaining = @ - 1 * Denom]
                /\ ( /\ claimReq'[r].pc = "done"
                     /\ claimReq'[r].resp.status \in {400, 401, 404, 409} )
                   => \A c \in DOMAIN fl_claims \cup DOMAIN fl_claims' : SameRecord(c)
      ]_vars


\* C28: under any interleaving of claim requests, every successful claim
\* response reports a usesRemaining from 0 to maxUses - 1, never a negative
\* number, and no two successful responses for the same claimId report the
\* same usesRemaining.
C28_ReportedUsesRemaining ==
    /\ \A r \in ClaimReqs :
          GotShare(r)
          => /\ claimReq[r].resp.body.usesRemaining >= 0
             /\ claimReq[r].resp.body.usesRemaining
                  <= claimReq[r].resp.body.maxUses - 1 * Denom
    /\ \A r, q \in ClaimReqs :
          ( /\ r # q /\ GotShare(r) /\ GotShare(q)
            /\ claimReq[r].body.claimId = claimReq[q].body.claimId )
          => claimReq[r].resp.body.usesRemaining # claimReq[q].resp.body.usesRemaining


----------------------------------------------------------------------------
(* Properties of the order of retrieval and claim, and of legacy links *)

\* the blob of page p is in the store, is not the burn marker, and starts
\* with the nonce of the link
BlobMatchesLink(p) ==
    LET res == retrieveSecret(reveal[p].parsed.blobId, TRUE) IN
    /\ res.ok
    /\ Len(res.data) >= IvLen
    /\ SubSeq(res.data, 1, IvLen) = reveal[p].parsed.iv

IsLegacyPage(p) == reveal[p].parsed.ok /\ reveal[p].parsed.hasKey

====
